---- MODULE Spec2Model ----
(***************************************************************************)
(* Alignment of target polygons (roofs) to reference polygons (parcels),   *)
(* after src/modules/process/align.py.                                     *)
(*                                                                         *)
(* Geometry: polygons are axis-parallel rectangles [x1, y1, x2, y2] on an  *)
(* integer grid whose unit is half a map unit, so that the centroid of a   *)
(* rectangle with even corner coordinates is a grid point and the shapely  *)
(* operations the code calls (area, intersects, intersection, centroid,    *)
(* distance, nearest_points, translate) are exact integer computations.    *)
(* Distances are kept squared: the code only compares them.                *)
(***************************************************************************)
EXTENDS Integers, Sequences, FiniteSets, TLC

(* ---------------------------------------------------------------- bounds *)

\* corner x coordinates are 0, 2, .., 2*MaxX; corner y coordinates 0, 2, .., 2*MaxY
MaxX == 3
MaxY == 1
\* longest target collection and longest reference list of a run
MaxTargets == 2
MaxRefs == 2

XS == {2 * i : i \in 0..MaxX}
YS == {2 * j : j \in 0..MaxY}

(* -------------------------------------------------------------- geometry *)

\* row.geometry of a record without geometry (None)
NoGeometry == [missing |-> TRUE]

Rect(a, b, c, d) == [x1 |-> a, y1 |-> b, x2 |-> c, y2 |-> d]

IsPolygon(g) == g # NoGeometry

Min(a, b) == IF a <= b THEN a ELSE b
Max(a, b) == IF a >= b THEN a ELSE b

\* geom.area
Area(g) == (g.x2 - g.x1) * (g.y2 - g.y1)

\* a.intersects(b): the closed point sets share a point (touching counts)
Intersects(a, b) ==
    /\ a.x1 <= b.x2 /\ b.x1 <= a.x2
    /\ a.y1 <= b.y2 /\ b.y1 <= a.y2

\* a.intersection(b).area
IntersectionArea(a, b) ==
    Max(0, Min(a.x2, b.x2) - Max(a.x1, b.x1)) * Max(0, Min(a.y2, b.y2) - Max(a.y1, b.y1))

\* a.within(b)
Within(a, b) == b.x1 <= a.x1 /\ a.x2 <= b.x2 /\ b.y1 <= a.y1 /\ a.y2 <= b.y2

\* geom.centroid, a point [x, y]
Centroid(g) == [x |-> (g.x1 + g.x2) \div 2, y |-> (g.y1 + g.y2) \div 2]

\* p.distance(q), squared
DistanceSq(p, q) == (p.x - q.x) * (p.x - q.x) + (p.y - q.y) * (p.y - q.y)

\* nearest_points(ref, p)[0]: the point of the filled polygon ref nearest to p
NearestPoint(ref, p) ==
    [x |-> Max(ref.x1, Min(p.x, ref.x2)), y |-> Max(ref.y1, Min(p.y, ref.y2))]

\* mutant: only the first corner is moved, the polygon is stretched
TranslateFirstCorner(g, xoff, yoff) ==
    [x1 |-> g.x1 + xoff, y1 |-> g.y1 + yoff, x2 |-> g.x2, y2 |-> g.y2]

\* shapely.affinity.translate(g, xoff, yoff)
Translate(g, xoff, yoff) ==
    Rect(g.x1 + xoff, g.y1 + yoff, g.x2 + xoff, g.y2 + yoff)

(* ---------------------------------------------------------------- ratios *)

\* a float quotient num / den, kept exact
Ratio(n, d) == [num |-> n, den |-> d]
RatioGT(a, b) == a.num * b.den > b.num * a.den
RatioGE(a, b) == a.num * b.den >= b.num * a.den
RatioEQ(a, b) == a.num * b.den = b.num * a.den

(* ---------------------------------------------------------------- inputs *)

\* the reference list holds polygons of positive area
ReferencePolys == {g \in [x1 : XS, y1 : YS, x2 : XS, y2 : YS] : g.x1 < g.x2 /\ g.y1 < g.y2}

\* a target geometry is a polygon of positive area, a degenerate polygon of
\* zero area (collapsed to a vertical segment), or missing
ValidTargets == ReferencePolys
ZeroAreaTargets == {g \in [x1 : XS, y1 : YS, x2 : XS, y2 : YS] : g.x1 = g.x2 /\ g.y1 < g.y2}
TargetGeoms == ValidTargets \cup ZeroAreaTargets \cup {NoGeometry}

\* row.drop("geometry").to_dict(): the attributes of a target row
AttributeSets == {[nom |-> "roof"]}

TargetRows == [geometry : TargetGeoms, attributes : AttributeSets]

\* min_overlap_ratio in [0, 1]; config.MIN_OVERLAP_RATIO is 1/2
MinOverlapRatios == {Ratio(0, 2), Ratio(1, 2), Ratio(2, 2)}
\* max_distance, in grid units
MaxDistances == {2, 4}

SeqsUpTo(S, n) == UNION {[1..k -> S] : k \in 0..n}

(* ----------------------------------------------------------------- state *)

VARIABLES
    target_gdf,          \* the target rows, in iteration order
    reference_polygons,  \* the reference list
    max_distance,
    min_overlap_ratio,
    idx,                 \* number of target rows the loop has finished
    aligned_data,
    unaligned_data,
    produced,            \* history: the record made for each finished row, in row order
    pc,                  \* "loop", "done" (returned) or "error" (an exception left the call)
    result               \* the returned list

alignVars == <<target_gdf, reference_polygons, max_distance, min_overlap_ratio, idx,
               aligned_data, unaligned_data, produced, pc, result>>

\* the chunked division runs (src/data/functions/divide.py, divpar6.py)
VARIABLES
    script,               \* which script runs: "divide" or "divpar6"
    divided_roofs,        \* the target rows [fid, geometry], in file order
    parcelles,            \* the reference polygons every worker is given
    num_processes,
    chunk_size,
    divided_roofs_chunks, \* the chunk list
    temp_files,           \* chunk numbers whose temporary file was written, in order
    loop_i,               \* position of the running loop (saving, then collecting)
    processed_results,    \* list of chunk results
    failed_chunks,        \* list of <<position in temp_files, chunk number>>
    failed_chunks_dir,    \* files left in the failed-chunks directory
    output,               \* rows written to output_path
    return_value,         \* what the call hands back to its caller
    merged_chunks,        \* history: chunk numbers whose worker result was taken as a success
    dpc                   \* position of the coordinator

divideVars == <<script, divided_roofs, parcelles, num_processes, chunk_size, divided_roofs_chunks,
                temp_files, loop_i, processed_results, failed_chunks, failed_chunks_dir,
                output, return_value, merged_chunks, dpc>>

\* the nearest-address assignment (src/data/functions/asign.py)
VARIABLES
    roofs_gdf,        \* the roof rows [fid, geometry]; fid is the index label
    address_gdf,      \* the address rows [numero, point]
    parcels_gdf,      \* the parcel polygons
    pool_processes,   \* num_processes of the pool
    roof_chunks,      \* chunks of roof index labels
    pending,          \* chunk numbers whose result the pool has not yielded yet
    results,          \* the result dictionaries, in arrival order
    output_gdf,       \* the merged output: fid -> the columns the merge has set
    apc               \* position of the script

assignVars == <<roofs_gdf, address_gdf, parcels_gdf, pool_processes, roof_chunks,
                pending, results, output_gdf, apc>>

\* the preprocessing of the reference polygons (merge-small, clustering, dissolve)
VARIABLES
    entry,               \* the function that runs
    reference_gdf,       \* the caller's reference polygons; the index label is the position
    max_merge_distance,
    min_area,
    simplified_gdf,      \* index labels of the working set, in order
    merged_polygons,     \* the clusters made so far, each the set of labels it unions
    result_polygons,     \* the geometries of the returned frame
    spc                  \* position of the function

simplifyVars == <<entry, reference_gdf, max_merge_distance, min_area, simplified_gdf,
                  merged_polygons, result_polygons, spc>>

\* the loading step of main.py (load_shapefiles of src/modules/process/align.py)
VARIABLES
    target_file,         \* the rows of the target shapefile, in the file's coordinates
    reference_file,      \* the polygons of the reference shapefile, in the file's coordinates
    target_file_crs,     \* the CRS recorded in the target shapefile
    reference_file_crs,  \* the CRS recorded in the reference shapefile
    target_gdf_crs,      \* target_gdf.crs once loaded
    reference_gdf_crs,   \* reference_gdf.crs once loaded
    mpc                  \* position of main

loadVars == <<target_file, reference_file, target_file_crs, reference_file_crs,
              target_gdf_crs, reference_gdf_crs, mpc>>

\* a pool worker inside process_with_timeout (src/data/functions/divpar6.py, divpar3.py)
VARIABLES
    alarm,          \* TRUE while a SIGALRM of this process is pending
    func_stage,     \* the step of the wrapped function that is running
    handler_depth,  \* 0 in a try body of the wrapped function, 1 in the except clause
                    \* of a step, 2 in the except clause around the whole function
    alarm_fired,    \* history: where the alarm of the running call went off
    call_value      \* the value the running call is about to return

workerVars == <<alarm, func_stage, handler_depth, alarm_fired, call_value>>

vars == <<alignVars, divideVars, assignVars, simplifyVars, loadVars, workerVars>>

\* no value yet
NoValue == [frame |-> <<>>, flag |-> "none", cause |-> "none"]

WorkerOff ==
    /\ alarm = FALSE /\ func_stage = 0 /\ handler_depth = 0
    /\ alarm_fired = "no" /\ call_value = NoValue

\* a frame without CRS (crs is None)
NoCrs == [defined |-> FALSE, name |-> <<>>]

LoadOff ==
    /\ target_file = <<>> /\ reference_file = <<>>
    /\ target_file_crs = NoCrs /\ reference_file_crs = NoCrs
    /\ target_gdf_crs = NoCrs /\ reference_gdf_crs = NoCrs
    /\ mpc = "off"

SimplifyOff ==
    /\ entry = "none" /\ reference_gdf = <<>> /\ max_merge_distance = 0 /\ min_area = 0
    /\ simplified_gdf = <<>> /\ merged_polygons = <<>> /\ result_polygons = <<>>
    /\ spc = "off"

AssignOff ==
    /\ roofs_gdf = <<>> /\ address_gdf = <<>> /\ parcels_gdf = <<>> /\ pool_processes = 1
    /\ roof_chunks = <<>> /\ pending = {} /\ results = <<>> /\ output_gdf = <<>>
    /\ apc = "off"

\* a subsystem that is not running
AlignOff ==
    /\ target_gdf = <<>> /\ reference_polygons = <<>>
    /\ max_distance = 2 /\ min_overlap_ratio = Ratio(0, 2)
    /\ idx = 0 /\ aligned_data = <<>> /\ unaligned_data = <<>> /\ produced = <<>>
    /\ pc = "off" /\ result = <<>>

DivideOff ==
    /\ script = "none" /\ divided_roofs = <<>> /\ parcelles = <<>> /\ num_processes = 1 /\ chunk_size = 0
    /\ divided_roofs_chunks = <<>> /\ temp_files = <<>> /\ loop_i = 0
    /\ processed_results = <<>> /\ failed_chunks = <<>> /\ failed_chunks_dir = {}
    /\ output = <<>> /\ return_value = "None" /\ merged_chunks = {} /\ dpc = "off"

notAlignVars == <<divideVars, assignVars, simplifyVars, loadVars, workerVars>>
notDivideVars == <<alignVars, assignVars, simplifyVars, loadVars, workerVars>>
notAssignVars == <<alignVars, divideVars, simplifyVars, loadVars, workerVars>>
notSimplifyVars == <<alignVars, divideVars, assignVars, loadVars, workerVars>>

(* ------------------------------------------- align_target_to_reference_inside *)

\* attributes[key] = value
Put(attributes, key, value) ==
    [k \in DOMAIN attributes \cup {key} |-> IF k = key THEN value ELSE attributes[k]]

\* mutant: overlap_ratio >= best_overlap_ratio, the last of the best wins
RECURSIVE OverlapLoopLastWins(_, _, _)
OverlapLoopLastWins(target_geom, refs, k) ==
    IF k = 0
    THEN [best_match |-> 0, best_overlap_ratio |-> [num |-> 0, den |-> 1], raised |-> FALSE]
    ELSE LET s == OverlapLoopLastWins(target_geom, refs, k - 1)
             ref == refs[k]
         IN  IF s.raised THEN s
             ELSE IF ~IsPolygon(target_geom) THEN [s EXCEPT !.raised = TRUE]
             ELSE IF Intersects(target_geom, ref)
             THEN IF Area(target_geom) = 0 THEN [s EXCEPT !.raised = TRUE]
                  ELSE LET overlap_ratio ==
                               [num |-> IntersectionArea(target_geom, ref),
                                den |-> Area(target_geom)]
                       IN  IF overlap_ratio.num * s.best_overlap_ratio.den
                                  >= s.best_overlap_ratio.num * overlap_ratio.den
                           THEN [s EXCEPT !.best_match = k,
                                          !.best_overlap_ratio = overlap_ratio]
                           ELSE s
             ELSE s

\* mutant: target_geom.area is read before the loop, so a row without
\* geometry throws even when there is no reference
RECURSIVE OverlapLoopEagerArea(_, _, _)
OverlapLoopEagerArea(target_geom, refs, k) ==
    IF k = 0
    THEN [best_match |-> 0, best_overlap_ratio |-> [num |-> 0, den |-> 1],
          raised |-> ~IsPolygon(target_geom)]
    ELSE LET s == OverlapLoopEagerArea(target_geom, refs, k - 1)
             ref == refs[k]
         IN  IF s.raised THEN s
             ELSE IF Intersects(target_geom, ref)
             THEN IF Area(target_geom) = 0 THEN [s EXCEPT !.raised = TRUE]
                  ELSE LET overlap_ratio ==
                               [num |-> IntersectionArea(target_geom, ref),
                                den |-> Area(target_geom)]
                       IN  IF overlap_ratio.num * s.best_overlap_ratio.den
                                  > s.best_overlap_ratio.num * overlap_ratio.den
                           THEN [s EXCEPT !.best_match = k,
                                          !.best_overlap_ratio = overlap_ratio]
                           ELSE s
             ELSE s

\* The overlap loop after its first k references: best_match is the position
\* of the reference held (0 for None); raised is set when the loop body threw
\* (None has no intersects; intersection_area / 0.0 is a ZeroDivisionError).
RECURSIVE OverlapLoop(_, _, _)
OverlapLoop(target_geom, refs, k) ==
    IF k = 0
    THEN [best_match |-> 0, best_overlap_ratio |-> Ratio(0, 1), raised |-> FALSE]
    ELSE LET s == OverlapLoop(target_geom, refs, k - 1)
             ref == refs[k]
         IN  IF s.raised THEN s
             ELSE IF ~IsPolygon(target_geom) THEN [s EXCEPT !.raised = TRUE]
             ELSE IF Intersects(target_geom, ref)
             THEN IF Area(target_geom) = 0 THEN [s EXCEPT !.raised = TRUE]
                  ELSE LET overlap_ratio ==
                               Ratio(IntersectionArea(target_geom, ref), Area(target_geom))
                       IN  IF RatioGT(overlap_ratio, s.best_overlap_ratio)
                           THEN [s EXCEPT !.best_match = k,
                                          !.best_overlap_ratio = overlap_ratio]
                           ELSE s
             ELSE s

\* mutant: distance <= min_distance, the last of the nearest references wins
RECURSIVE NearestLoopLastWins(_, _, _)
NearestLoopLastWins(target_geom, refs, k) ==
    IF k = 0
    THEN [nearest_ref |-> 0, min_distance |-> 0]
    ELSE LET s == NearestLoopLastWins(target_geom, refs, k - 1)
             distance == DistanceSq(Centroid(target_geom), Centroid(refs[k]))
         IN  IF s.nearest_ref = 0 \/ distance <= s.min_distance
             THEN [nearest_ref |-> k, min_distance |-> distance]
             ELSE s

\* The nearest-centroid loop after its first k references: nearest_ref is the
\* position of the reference held (0 for None, min_distance then being inf).
RECURSIVE NearestLoop(_, _, _)
NearestLoop(target_geom, refs, k) ==
    IF k = 0
    THEN [nearest_ref |-> 0, min_distance |-> 0]
    ELSE LET s == NearestLoop(target_geom, refs, k - 1)
             distance == DistanceSq(Centroid(target_geom), Centroid(refs[k]))
         IN  IF s.nearest_ref = 0 \/ distance < s.min_distance
             THEN [nearest_ref |-> k, min_distance |-> distance]
             ELSE s

\* mutant: best_overlap_ratio > min_overlap_ratio
IsAlignedStrict(o, minr) ==
    o.best_match # 0 /\ o.best_overlap_ratio.num * minr.den > minr.num * o.best_overlap_ratio.den

\* if best_match and best_overlap_ratio >= min_overlap_ratio
IsAligned(o, minr) == o.best_match # 0 /\ RatioGE(o.best_overlap_ratio, minr)

\* if nearest_ref and min_distance <= max_distance
IsNearby(n, maxd) == n.nearest_ref # 0 /\ n.min_distance <= maxd * maxd

\* mutant: the area recorded is the target's, not the matched reference's
AlignedRecordTargetArea(attributes, target_geom, best_match, best_overlap_ratio) ==
    [k \in DOMAIN attributes \cup {"alignment", "ref_area", "overlap", "geometry"} |->
        CASE k = "alignment" -> "aligned"
          [] k = "ref_area" -> Area(target_geom)
          [] k = "overlap" -> best_overlap_ratio
          [] k = "geometry" -> target_geom
          [] OTHER -> attributes[k]]

\* mutant: the geometry recorded is the target clipped to the matched reference
AlignedRecordClipped(attributes, target_geom, best_match, best_overlap_ratio) ==
    [k \in DOMAIN attributes \cup {"alignment", "ref_area", "overlap", "geometry"} |->
        CASE k = "alignment" -> "aligned"
          [] k = "ref_area" -> Area(best_match)
          [] k = "overlap" -> best_overlap_ratio
          [] k = "geometry" -> Rect(Max(target_geom.x1, best_match.x1),
                                    Max(target_geom.y1, best_match.y1),
                                    Min(target_geom.x2, best_match.x2),
                                    Min(target_geom.y2, best_match.y2))
          [] OTHER -> attributes[k]]

\* the record of the aligned branch
AlignedRecord(attributes, target_geom, best_match, best_overlap_ratio) ==
    LET a1 == Put(attributes, "alignment", "aligned")
        a2 == Put(a1, "ref_area", Area(best_match))
        a3 == Put(a2, "overlap", best_overlap_ratio)
    IN  Put(a3, "geometry", target_geom)

\* the record of the adjusted branch: the target moved so that its centroid
\* falls on the point of nearest_ref nearest to it
AdjustedRecord(attributes, target_geom, nearest_ref) ==
    LET new_centroid == NearestPoint(nearest_ref, Centroid(target_geom))
        adjusted_geom == Translate(target_geom,
                                   new_centroid.x - Centroid(target_geom).x,
                                   new_centroid.y - Centroid(target_geom).y)
        a1 == Put(attributes, "alignment", "adjusted")
        a2 == Put(a1, "ref_area", Area(nearest_ref))
        a3 == Put(a2, "overlap", Ratio(0, 1))
    IN  Put(a3, "geometry", adjusted_geom)

\* mutant: the nearest reference's distance is recorded, as for "nearby"
NotAlignedRecordWithDistance(attributes, target_geom) ==
    [k \in DOMAIN attributes \cup {"alignment", "ref_area", "overlap", "geometry",
                                   "nearest_ref_distance"} |->
        CASE k = "alignment" -> "not_aligned"
          [] k = "ref_area" -> 0
          [] k = "overlap" -> [num |-> 0, den |-> 1]
          [] k = "geometry" -> target_geom
          [] k = "nearest_ref_distance" -> 0
          [] OTHER -> attributes[k]]

\* the record of the not_aligned branch
NotAlignedRecord(attributes, target_geom) ==
    LET a1 == Put(attributes, "alignment", "not_aligned")
        a2 == Put(a1, "ref_area", 0)
        a3 == Put(a2, "overlap", Ratio(0, 1))
    IN  Put(a3, "geometry", target_geom)

\* One iteration of the loop over target_gdf.iterrows(): whether it threw,
\* the list it appended to, and the record appended.
AlignRow(row, refs, maxd, minr) ==
    LET target_geom == row.geometry
        attributes == row.attributes
        o == OverlapLoop(target_geom, refs, Len(refs))
    IN  IF o.raised
        THEN [raised |-> TRUE, list |-> "none", record |-> attributes]
        ELSE IF IsAligned(o, minr)
        THEN [raised |-> FALSE, list |-> "aligned_data",
              record |-> AlignedRecord(attributes, target_geom, refs[o.best_match],
                                       o.best_overlap_ratio)]
        ELSE LET n == NearestLoop(target_geom, refs, Len(refs))
             IN  IF IsNearby(n, maxd)
                 THEN [raised |-> FALSE, list |-> "aligned_data",
                       record |-> AdjustedRecord(attributes, target_geom,
                                                 refs[n.nearest_ref])]
                 ELSE [raised |-> FALSE, list |-> "unaligned_data",
                       record |-> NotAlignedRecord(attributes, target_geom)]

\* mutant: the unaligned records are left out of the returned list
ReturnValueAlignedOnly(aligned, unaligned) == aligned

\* mutant: the unaligned records are put first
ReturnValueUnalignedFirst(aligned, unaligned) == unaligned \o aligned

\* return aligned_data + unaligned_data
ReturnValue(aligned, unaligned) == aligned \o unaligned

Init ==
    /\ WorkerOff
    /\ LoadOff
    /\ target_gdf \in SeqsUpTo(TargetRows, MaxTargets)
    /\ reference_polygons \in SeqsUpTo(ReferencePolys, MaxRefs)
    /\ max_distance \in MaxDistances
    /\ min_overlap_ratio \in MinOverlapRatios
    /\ idx = 0
    /\ aligned_data = <<>>
    /\ unaligned_data = <<>>
    /\ produced = <<>>
    /\ pc = "loop"
    /\ result = <<>>
    /\ DivideOff
    /\ AssignOff
    /\ SimplifyOff

\* an iteration that runs to its append
ProcessRow ==
    /\ pc = "loop"
    /\ idx < Len(target_gdf)
    /\ LET out == AlignRow(target_gdf[idx + 1], reference_polygons,
                           max_distance, min_overlap_ratio)
       IN  /\ ~out.raised
           /\ aligned_data' = IF out.list = "aligned_data"
                              THEN Append(aligned_data, out.record) ELSE aligned_data
           /\ unaligned_data' = IF out.list = "unaligned_data"
                                THEN Append(unaligned_data, out.record) ELSE unaligned_data
           /\ produced' = Append(produced, out.record)
    /\ idx' = idx + 1
    /\ UNCHANGED <<target_gdf, reference_polygons, max_distance, min_overlap_ratio,
                   pc, result>>
    /\ UNCHANGED notAlignVars

\* an iteration whose body throws: nothing catches it, the call is left
ProcessRowRaises ==
    /\ pc = "loop"
    /\ idx < Len(target_gdf)
    /\ AlignRow(target_gdf[idx + 1], reference_polygons,
                max_distance, min_overlap_ratio).raised
    /\ pc' = "error"
    /\ UNCHANGED <<target_gdf, reference_polygons, max_distance, min_overlap_ratio,
                   idx, aligned_data, unaligned_data, produced, result>>
    /\ UNCHANGED notAlignVars

\* return aligned_data + unaligned_data
Return ==
    /\ pc = "loop"
    /\ idx = Len(target_gdf)
    /\ result' = ReturnValue(aligned_data, unaligned_data)
    /\ pc' = "done"
    /\ UNCHANGED <<target_gdf, reference_polygons, max_distance, min_overlap_ratio,
                   idx, aligned_data, unaligned_data, produced>>
    /\ UNCHANGED notAlignVars

Next == ProcessRow \/ ProcessRowRaises \/ Return

Spec == Init /\ [][Next]_vars

(* ------------------------------------- chunked division: divide.py, divpar6.py *)

\* longest target collection of a chunked run
MaxRoofs == 4

\* the fan-out multiplier of the chunk size
FANOUT_DIVIDE == 2
FANOUT_DIVPAR6 == 16

\* mp.Pool(num_processes)
NumProcesses == {1, 2}

RoofGeoms == {Rect(0, 0, 2, 2), Rect(2, 0, 6, 2)}
ParcelLists == {<<Rect(0, 0, 4, 2), Rect(4, 0, 6, 2)>>, <<Rect(4, 0, 6, 2)>>}

\* the rows of a GeoDataFrame read from a file: fid is the row's index label
RoofRows(geoms) == [i \in 1..Len(geoms) |-> [fid |-> i, geometry |-> geoms[i]]]

\* mutant: no fan-out, one chunk per worker
ChunkSizePerWorker(n, workers, fanout) == Max(n \div workers, 1)

\* chunk_size = max(len(rows) // (num_processes * fanout), 1)
ChunkSize(n, workers, fanout) == Max(n \div (workers * fanout), 1)

\* mutant: only the full chunks are taken, a shorter last slice is left out
ChunksFullOnly(rows, size) ==
    [c \in 1..(Len(rows) \div size) |-> SubSeq(rows, (c - 1) * size + 1, c * size)]

\* [rows[i:i + size] for i in range(0, len(rows), size)]
Chunks(rows, size) ==
    [c \in 1..((Len(rows) + size - 1) \div size) |->
        SubSeq(rows, (c - 1) * size + 1, Min(c * size, Len(rows)))]

SetMin(S) == CHOOSE m \in S : \A x \in S : m <= x
SetMax(S) == CHOOSE m \in S : \A x \in S : m >= x

\* chunk.total_bounds: the box around every geometry of the chunk
TotalBounds(chunk) ==
    Rect(SetMin({chunk[i].geometry.x1 : i \in 1..Len(chunk)}),
         SetMin({chunk[i].geometry.y1 : i \in 1..Len(chunk)}),
         SetMax({chunk[i].geometry.x2 : i \in 1..Len(chunk)}),
         SetMax({chunk[i].geometry.y2 : i \in 1..Len(chunk)}))

\* mutant: the filter uses the bounds of the first row of the chunk only
CxFirstRow(polys, chunk) == {j \in 1..Len(polys) : Intersects(polys[j], chunk[1].geometry)}

\* parcelles_gdf.cx[minx:maxx, miny:maxy] for the chunk's total bounds: the
\* positions of the polygons that intersect the box
Cx(polys, chunk) == {j \in 1..Len(polys) : Intersects(polys[j], TotalBounds(chunk))}

\* a.intersection(b) of two rectangles that overlap
Intersection(a, b) ==
    Rect(Max(a.x1, b.x1), Max(a.y1, b.y1), Min(a.x2, b.x2), Min(a.y2, b.y2))

\* the rows gpd.overlay(.., how='intersection') makes of one target row: one per
\* polygon of `relevant` it shares area with (lines and points are not kept)
RECURSIVE OverlayRow(_, _, _, _)
OverlayRow(row, polys, relevant, j) ==
    IF j > Len(polys) THEN <<>>
    ELSE IF j \in relevant /\ IntersectionArea(row.geometry, polys[j]) > 0
         THEN <<[fid |-> row.fid, parcelle |-> j,
                 geometry |-> Intersection(row.geometry, polys[j])]>>
              \o OverlayRow(row, polys, relevant, j + 1)
         ELSE OverlayRow(row, polys, relevant, j + 1)

RECURSIVE Overlay(_, _, _, _)
Overlay(chunk, polys, relevant, i) ==
    IF i > Len(chunk) THEN <<>>
    ELSE OverlayRow(chunk[i], polys, relevant, 1) \o Overlay(chunk, polys, relevant, i + 1)

\* divpar6.process_intersection_from_file, the run without exception: the
\* frame of the (frame, True) it returns
ProcessIntersectionFromFile(chunk, polys) ==
    LET relevant_parcelles == Cx(polys, chunk)
    IN  IF relevant_parcelles = {} THEN <<>>
        ELSE Overlay(chunk, polys, relevant_parcelles, 1)

\* divide.process_intersection_from_file: the overlay with every polygon
DivideProcessIntersectionFromFile(chunk, communes) ==
    Overlay(chunk, communes, 1..Len(communes), 1)

RECURSIVE Concat(_)
\* pd.concat(frames, ignore_index=True)
Concat(frames) == IF frames = <<>> THEN <<>> ELSE Head(frames) \o Concat(Tail(frames))

\* the files the coordinator leaves in failed_chunks_dir: a copy of each failed
\* chunk's temporary file, named after its position, and the metadata file
FailedChunkFiles(failed, chunks) ==
    {[name |-> "failed_chunk", id |-> failed[f][1], rows |-> chunks[failed[f][2]]] :
        f \in 1..Len(failed)}
    \cup {[name |-> "failed_chunks_info.txt", id |-> Len(failed), rows |-> <<>>]}

InitDivide ==
    /\ WorkerOff
    /\ LoadOff
    /\ AlignOff
    /\ SimplifyOff
    /\ AssignOff
    /\ script \in {"divide", "divpar6"}
    /\ divided_roofs \in {RoofRows(g) : g \in SeqsUpTo(RoofGeoms, MaxRoofs)}
    /\ parcelles \in ParcelLists
    /\ num_processes \in NumProcesses
    /\ chunk_size = 0
    /\ divided_roofs_chunks = <<>>
    /\ temp_files = <<>>
    /\ loop_i = 0
    /\ processed_results = <<>>
    /\ failed_chunks = <<>>
    /\ failed_chunks_dir = {}
    /\ output = <<>>
    /\ return_value = "None"
    /\ merged_chunks = {}
    /\ dpc = "split"

\* divpar6: chunk_size and the chunk list
SplitIntoChunks ==
    /\ script = "divpar6" /\ dpc = "split"
    /\ chunk_size' = ChunkSize(Len(divided_roofs), num_processes, FANOUT_DIVPAR6)
    /\ divided_roofs_chunks' = Chunks(divided_roofs, chunk_size')
    /\ dpc' = "save"
    /\ UNCHANGED <<script, divided_roofs, parcelles, num_processes, temp_files, loop_i,
                   processed_results, failed_chunks, failed_chunks_dir, output,
                   return_value, merged_chunks>>
    /\ UNCHANGED notDivideVars

\* divpar6: one pass of the saving loop, the file is written
SaveChunk ==
    /\ script = "divpar6" /\ dpc = "save"
    /\ loop_i < Len(divided_roofs_chunks)
    /\ temp_files' = Append(temp_files, loop_i + 1)
    /\ loop_i' = loop_i + 1
    /\ UNCHANGED <<script, divided_roofs, parcelles, num_processes, chunk_size,
                   divided_roofs_chunks, processed_results, failed_chunks,
                   failed_chunks_dir, output, return_value, merged_chunks, dpc>>
    /\ UNCHANGED notDivideVars

\* divpar6: one pass of the saving loop, save_chunk_to_file raises: the
\* handler prints and the loop goes on
SaveChunkRaises ==
    /\ script = "divpar6" /\ dpc = "save"
    /\ loop_i < Len(divided_roofs_chunks)
    /\ loop_i' = loop_i + 1
    /\ UNCHANGED <<script, divided_roofs, parcelles, num_processes, chunk_size,
                   divided_roofs_chunks, temp_files, processed_results, failed_chunks,
                   failed_chunks_dir, output, return_value, merged_chunks, dpc>>
    /\ UNCHANGED notDivideVars

\* divpar6: every saved chunk is handed to the pool (apply_async)
SubmitChunks ==
    /\ script = "divpar6" /\ dpc = "save"
    /\ loop_i = Len(divided_roofs_chunks)
    /\ loop_i' = 0
    /\ dpc' = "collect"
    /\ UNCHANGED <<script, divided_roofs, parcelles, num_processes, chunk_size,
                   divided_roofs_chunks, temp_files, processed_results, failed_chunks,
                   failed_chunks_dir, output, return_value, merged_chunks>>
    /\ UNCHANGED notDivideVars

\* divpar6: result.get returns (frame, True)
CollectSuccess ==
    /\ script = "divpar6" /\ dpc = "collect"
    /\ loop_i < Len(temp_files)
    /\ processed_results' =
          Append(processed_results,
                 ProcessIntersectionFromFile(divided_roofs_chunks[temp_files[loop_i + 1]],
                                             parcelles))
    /\ merged_chunks' = merged_chunks \cup {temp_files[loop_i + 1]}
    /\ loop_i' = loop_i + 1
    /\ UNCHANGED <<script, divided_roofs, parcelles, num_processes, chunk_size,
                   divided_roofs_chunks, temp_files, failed_chunks, failed_chunks_dir,
                   output, return_value, dpc>>
    /\ UNCHANGED notDivideVars

\* divpar6: result.get returns (empty frame, False): the worker caught an
\* exception, or its alarm went off (process_with_timeout)
CollectFailure ==
    /\ script = "divpar6" /\ dpc = "collect"
    /\ loop_i < Len(temp_files)
    /\ failed_chunks' = Append(failed_chunks, <<loop_i + 1, temp_files[loop_i + 1]>>)
    /\ loop_i' = loop_i + 1
    /\ UNCHANGED <<script, divided_roofs, parcelles, num_processes, chunk_size,
                   divided_roofs_chunks, temp_files, processed_results, failed_chunks_dir,
                   output, return_value, merged_chunks, dpc>>
    /\ UNCHANGED notDivideVars

\* divpar6: result.get raises (its own timeout, a worker that died)
CollectRaises ==
    /\ script = "divpar6" /\ dpc = "collect"
    /\ loop_i < Len(temp_files)
    /\ failed_chunks' = Append(failed_chunks, <<loop_i + 1, temp_files[loop_i + 1]>>)
    /\ processed_results' = Append(processed_results, <<>>)
    /\ loop_i' = loop_i + 1
    /\ UNCHANGED <<script, divided_roofs, parcelles, num_processes, chunk_size,
                   divided_roofs_chunks, temp_files, failed_chunks_dir,
                   output, return_value, merged_chunks, dpc>>
    /\ UNCHANGED notDivideVars

\* divpar6: the failed chunks are copied to failed_chunks_dir
SaveFailedChunks ==
    /\ script = "divpar6" /\ dpc = "collect"
    /\ loop_i = Len(temp_files)
    /\ failed_chunks_dir' = IF failed_chunks # <<>>
                            THEN FailedChunkFiles(failed_chunks, divided_roofs_chunks)
                            ELSE failed_chunks_dir
    /\ dpc' = "combine"
    /\ UNCHANGED <<script, divided_roofs, parcelles, num_processes, chunk_size,
                   divided_roofs_chunks, temp_files, loop_i, processed_results,
                   failed_chunks, output, return_value, merged_chunks>>
    /\ UNCHANGED notDivideVars

\* divpar6: every result is empty: the call returns, nothing is written
ReturnAllEmpty ==
    /\ script = "divpar6" /\ dpc = "combine"
    /\ \A r \in 1..Len(processed_results) : processed_results[r] = <<>>
    /\ return_value' = "None"
    /\ dpc' = "done"
    /\ UNCHANGED <<script, divided_roofs, parcelles, num_processes, chunk_size,
                   divided_roofs_chunks, temp_files, loop_i, processed_results,
                   failed_chunks, failed_chunks_dir, output, merged_chunks>>
    /\ UNCHANGED notDivideVars

\* divpar6: the non-empty results are concatenated and written
CombineResults ==
    /\ script = "divpar6" /\ dpc = "combine"
    /\ \E r \in 1..Len(processed_results) : processed_results[r] # <<>>
    /\ output' = Concat(SelectSeq(processed_results, LAMBDA r : r # <<>>))
    /\ return_value' = "None"
    /\ dpc' = "done"
    /\ UNCHANGED <<script, divided_roofs, parcelles, num_processes, chunk_size,
                   divided_roofs_chunks, temp_files, loop_i, processed_results,
                   failed_chunks, failed_chunks_dir, merged_chunks>>
    /\ UNCHANGED notDivideVars

\* divide: chunk_size and the chunk list
DivideSplitIntoChunks ==
    /\ script = "divide" /\ dpc = "split"
    /\ chunk_size' = ChunkSize(Len(divided_roofs), num_processes, FANOUT_DIVIDE)
    /\ divided_roofs_chunks' = Chunks(divided_roofs, chunk_size')
    /\ dpc' = "save"
    /\ UNCHANGED <<script, divided_roofs, parcelles, num_processes, temp_files, loop_i,
                   processed_results, failed_chunks, failed_chunks_dir, output,
                   return_value, merged_chunks>>
    /\ UNCHANGED notDivideVars

\* divide: every chunk is saved (a list comprehension), then the pool starts
DivideSaveChunks ==
    /\ script = "divide" /\ dpc = "save"
    /\ temp_files' = [c \in 1..Len(divided_roofs_chunks) |-> c]
    /\ dpc' = "collect"
    /\ UNCHANGED <<script, divided_roofs, parcelles, num_processes, chunk_size,
                   divided_roofs_chunks, loop_i, processed_results, failed_chunks,
                   failed_chunks_dir, output, return_value, merged_chunks>>
    /\ UNCHANGED notDivideVars

\* divide: pool.imap yields the next chunk's frame
DivideImapResult ==
    /\ script = "divide" /\ dpc = "collect"
    /\ loop_i < Len(temp_files)
    /\ processed_results' =
          Append(processed_results,
                 DivideProcessIntersectionFromFile(
                     divided_roofs_chunks[temp_files[loop_i + 1]], parcelles))
    /\ merged_chunks' = merged_chunks \cup {temp_files[loop_i + 1]}
    /\ loop_i' = loop_i + 1
    /\ UNCHANGED <<script, divided_roofs, parcelles, num_processes, chunk_size,
                   divided_roofs_chunks, temp_files, failed_chunks, failed_chunks_dir,
                   output, return_value, dpc>>
    /\ UNCHANGED notDivideVars

\* divide: the worker of the next chunk raised: pool.imap raises it again in
\* the coordinator, whose only handler is the one around the whole call
DivideImapRaises ==
    /\ script = "divide" /\ dpc = "collect"
    /\ loop_i < Len(temp_files)
    /\ dpc' = "aborted"
    /\ UNCHANGED <<script, divided_roofs, parcelles, num_processes, chunk_size,
                   divided_roofs_chunks, temp_files, loop_i, processed_results,
                   failed_chunks, failed_chunks_dir, output, return_value, merged_chunks>>
    /\ UNCHANGED notDivideVars

\* divide: the frames are concatenated and written
DivideCombineResults ==
    /\ script = "divide" /\ dpc = "collect"
    /\ loop_i = Len(temp_files)
    /\ Len(temp_files) > 0
    /\ output' = Concat(processed_results)
    /\ dpc' = "done"
    /\ UNCHANGED <<script, divided_roofs, parcelles, num_processes, chunk_size,
                   divided_roofs_chunks, temp_files, loop_i, processed_results,
                   failed_chunks, failed_chunks_dir, return_value, merged_chunks>>
    /\ UNCHANGED notDivideVars

\* divide: pd.concat of no frame raises: the call ends in its handler
DivideCombineNothing ==
    /\ script = "divide" /\ dpc = "collect"
    /\ Len(temp_files) = 0
    /\ dpc' = "aborted"
    /\ UNCHANGED <<script, divided_roofs, parcelles, num_processes, chunk_size,
                   divided_roofs_chunks, temp_files, loop_i, processed_results,
                   failed_chunks, failed_chunks_dir, output, return_value, merged_chunks>>
    /\ UNCHANGED notDivideVars

NextDivide ==
    \/ SplitIntoChunks \/ SaveChunk \/ SaveChunkRaises \/ SubmitChunks
    \/ CollectSuccess \/ CollectFailure \/ CollectRaises
    \/ SaveFailedChunks \/ ReturnAllEmpty \/ CombineResults
    \/ DivideSplitIntoChunks \/ DivideSaveChunks \/ DivideImapResult \/ DivideImapRaises
    \/ DivideCombineResults \/ DivideCombineNothing

SpecDivide == InitDivide /\ [][NextDivide]_vars

\* longest target collection of the runs that are given every chunk size
MaxChunkRoofs == 3

\* a run of divpar6 about to collect its workers, every chunk saved and
\* submitted, for every size the chunk-size line can yield (1 is what it
\* yields for collections this short; larger sizes are those of longer
\* collections and smaller fan-out)
InitAnyChunkSize ==
    /\ WorkerOff
    /\ LoadOff
    /\ AlignOff
    /\ SimplifyOff
    /\ AssignOff
    /\ script = "divpar6"
    /\ divided_roofs \in {RoofRows(g) : g \in SeqsUpTo(ReferencePolys, MaxChunkRoofs)}
    /\ parcelles \in SeqsUpTo(ReferencePolys, MaxRefs)
    /\ num_processes = 1
    /\ chunk_size \in 1..MaxChunkRoofs
    /\ divided_roofs_chunks = Chunks(divided_roofs, chunk_size)
    /\ temp_files = [c \in 1..Len(divided_roofs_chunks) |-> c]
    /\ loop_i = 0
    /\ processed_results = <<>>
    /\ failed_chunks = <<>>
    /\ failed_chunks_dir = {}
    /\ output = <<>>
    /\ return_value = "None"
    /\ merged_chunks = {}
    /\ dpc = "collect"

SpecAnyChunkSize == InitAnyChunkSize /\ [][CollectSuccess]_vars

(* ------------------------------------------ nearest-address assignment: asign.py *)

FANOUT_ASIGN == 4

\* address points with their house number
AddressLists ==
    {<<[numero |-> 10, point |-> [x |-> 1, y |-> 1]], [numero |-> 20, point |-> [x |-> 5, y |-> 1]]>>,
     <<[numero |-> 10, point |-> [x |-> 5, y |-> 1]], [numero |-> 20, point |-> [x |-> 3, y |-> 1]],
       [numero |-> 30, point |-> [x |-> 1, y |-> 1]]>>}

\* point.distance(geom), squared
PointDistanceSq(point, geom) == DistanceSq(NearestPoint(geom, point), point)

\* point.intersects(geom)
PointIntersects(point, geom) ==
    geom.x1 <= point.x /\ point.x <= geom.x2 /\ geom.y1 <= point.y /\ point.y <= geom.y2

\* roof_to_parcel_mapping: the parcel a roof lies within (sjoin, predicate
\* "within"), 0 for a roof without entry; the parcels of the model do not
\* overlap, so at most one contains a roof
RoofToParcelMapping(roofs, parcels) ==
    [fid \in 1..Len(roofs) |->
        LET containing == {j \in 1..Len(parcels) : Within(roofs[fid].geometry, parcels[j])}
        IN  IF containing = {} THEN 0 ELSE SetMax(containing)]

\* distances.idxmin(): the first of the candidates at the least distance
IdxMin(candidates, addresses, geom) ==
    SetMin({a \in candidates :
               \A b \in candidates :
                   PointDistanceSq(addresses[a].point, geom)
                       <= PointDistanceSq(addresses[b].point, geom)})

\* find_nearest_address_in_parcel
FindNearestAddressInParcel(roof_idx, roofs, addresses, parcels, mapping) ==
    LET roof == roofs[roof_idx]
        parcel_id == mapping[roof_idx]
        addresses_in_parcel ==
            IF parcel_id = 0 THEN {}
            ELSE {a \in 1..Len(addresses) :
                     PointIntersects(addresses[a].point, parcels[parcel_id])}
        candidate_addresses ==
            IF addresses_in_parcel # {} THEN addresses_in_parcel ELSE 1..Len(addresses)
        closest_idx == IdxMin(candidate_addresses, addresses, roof.geometry)
    IN  [roof_idx |-> roof_idx,
         address_numero |-> addresses[closest_idx].numero,
         distance |-> PointDistanceSq(addresses[closest_idx].point, roof.geometry),
         parcel_id |-> parcel_id]

\* process_chunk: one result dictionary per roof index of the chunk
ProcessChunk(roof_indices, roofs, addresses, parcels, mapping) ==
    [i \in 1..Len(roof_indices) |->
        FindNearestAddressInParcel(roof_indices[i], roofs, addresses, parcels, mapping)]

\* roofs_gdf.copy(): the columns the merge adds are not set yet (0)
CopyOfRoofs(roofs) ==
    [fid \in 1..Len(roofs) |->
        [fid |-> fid, geometry |-> roofs[fid].geometry,
         numero |-> 0, dist_to_addr |-> 0, parcel_id |-> 0]]

\* mutant: the i-th result is written to the i-th row of the output
MergeRowsByPosition(out, rows, i) ==
    [fid \in 1..Len(out) |->
        IF fid <= Len(rows)
        THEN [out[fid] EXCEPT !.numero = rows[fid].address_numero,
                              !.dist_to_addr = rows[fid].distance,
                              !.parcel_id = rows[fid].parcel_id]
        ELSE out[fid]]

RECURSIVE MergeRows(_, _, _)
\* the merge loop: output_gdf.at[roof_idx, column] = value, row after row
MergeRows(out, rows, i) ==
    IF i > Len(rows) THEN out
    ELSE MergeRows([out EXCEPT ![rows[i].roof_idx] =
                        [@ EXCEPT !.numero = rows[i].address_numero,
                                  !.dist_to_addr = rows[i].distance,
                                  !.parcel_id = rows[i].parcel_id]],
                   rows, i + 1)

InitAssign ==
    /\ WorkerOff
    /\ LoadOff
    /\ AlignOff
    /\ SimplifyOff
    /\ DivideOff
    /\ roofs_gdf \in {RoofRows(g) : g \in SeqsUpTo(RoofGeoms, MaxRoofs)}
    /\ address_gdf \in AddressLists
    /\ parcels_gdf \in ParcelLists
    /\ pool_processes \in NumProcesses
    /\ roof_chunks = <<>>
    /\ pending = {}
    /\ results = <<>>
    /\ output_gdf = <<>>
    /\ apc = "split"

\* roof_indices, chunk_size and the chunk list; the chunks go to the pool
SplitRoofIndices ==
    /\ apc = "split"
    /\ LET roof_indices == [i \in 1..Len(roofs_gdf) |-> roofs_gdf[i].fid]
       IN  roof_chunks' = Chunks(roof_indices,
                                 ChunkSize(Len(roof_indices), pool_processes, FANOUT_ASIGN))
    /\ pending' = 1..Len(roof_chunks')
    /\ apc' = "imap"
    /\ UNCHANGED <<roofs_gdf, address_gdf, parcels_gdf, pool_processes, results, output_gdf>>
    /\ UNCHANGED notAssignVars

\* pool.imap_unordered yields the result of whichever chunk finished next
ImapUnorderedYield ==
    /\ apc = "imap"
    /\ \E c \in pending :
          /\ results' = results \o ProcessChunk(roof_chunks[c], roofs_gdf, address_gdf,
                                                parcels_gdf,
                                                RoofToParcelMapping(roofs_gdf, parcels_gdf))
          /\ pending' = pending \ {c}
    /\ UNCHANGED <<roofs_gdf, address_gdf, parcels_gdf, pool_processes, roof_chunks,
                   output_gdf, apc>>
    /\ UNCHANGED notAssignVars

\* every chunk has arrived: the results are merged into a copy of the roofs
MergeResults ==
    /\ apc = "imap"
    /\ pending = {}
    /\ output_gdf' = MergeRows(CopyOfRoofs(roofs_gdf), results, 1)
    /\ apc' = "done"
    /\ UNCHANGED <<roofs_gdf, address_gdf, parcels_gdf, pool_processes, roof_chunks,
                   pending, results>>
    /\ UNCHANGED notAssignVars

NextAssign == SplitRoofIndices \/ ImapUnorderedYield \/ MergeResults

SpecAssign == InitAssign /\ [][NextAssign]_vars

(* ------------------------------------------------------- the chunk lists alone *)

\* longest collection the chunk lists are built for
MaxIndexCount == 40

\* the three scripts about to build their chunk list, over collections long
\* enough for every fan-out to give chunks of several rows
InitChunks ==
    /\ WorkerOff
    /\ LoadOff
    /\ AlignOff
    /\ SimplifyOff
    /\ \E n \in 0..MaxIndexCount :
          /\ divided_roofs = RoofRows([i \in 1..n |-> Rect(0, 0, 2, 2)])
          /\ roofs_gdf = RoofRows([i \in 1..n |-> Rect(0, 0, 2, 2)])
    /\ script \in {"divide0", "divpar6"}
    /\ parcelles = <<>>
    /\ num_processes \in NumProcesses
    /\ chunk_size = 0
    /\ divided_roofs_chunks = <<>>
    /\ temp_files = <<>>
    /\ loop_i = 0
    /\ processed_results = <<>>
    /\ failed_chunks = <<>>
    /\ failed_chunks_dir = {}
    /\ output = <<>>
    /\ return_value = "None"
    /\ merged_chunks = {}
    /\ dpc = "split"
    /\ address_gdf = <<>>
    /\ parcels_gdf = <<>>
    /\ pool_processes \in NumProcesses
    /\ roof_chunks = <<>>
    /\ pending = {}
    /\ results = <<>>
    /\ output_gdf = <<>>
    /\ apc = "split"

\* divide0: chunk_size = len(parcelles) // num_processes + 1 and the chunk list
Divide0SplitIntoChunks ==
    /\ script = "divide0" /\ dpc = "split"
    /\ chunk_size' = Len(divided_roofs) \div num_processes + 1
    /\ divided_roofs_chunks' = Chunks(divided_roofs, chunk_size')
    /\ dpc' = "map"
    /\ UNCHANGED <<script, divided_roofs, parcelles, num_processes, temp_files, loop_i,
                   processed_results, failed_chunks, failed_chunks_dir, output,
                   return_value, merged_chunks>>
    /\ UNCHANGED notDivideVars

NextChunks == SplitRoofIndices \/ SplitIntoChunks \/ Divide0SplitIntoChunks

SpecChunks == InitChunks /\ [][NextChunks]_vars

(* ----------------------- preprocessing of the reference polygons: merge, simplify *)

\* longest reference frame given to a preprocessing pass
MaxPolygons == 3

\* The polygons are rectangles made of the cells of a 3 x 2 grid; a cell is
\* named by its lower left corner.  The union of polygons is the set of the
\* cells they cover.
GridX == {0, 2, 4}
GridY == {0, 2}

SimplifyPolys ==
    {Rect(0, 0, 2, 2), Rect(2, 0, 4, 2), Rect(4, 0, 6, 2), Rect(2, 2, 4, 4),
     Rect(0, 0, 4, 2), Rect(4, 0, 6, 4)}

\* max_merge_distance and min_area, in grid units (a cell has area 4)
MergeDistances == {1, 4}
MinAreas == {4, 8}

CellsOf(g) ==
    {c \in GridX \X GridY :
        g.x1 <= c[1] /\ c[1] + 2 <= g.x2 /\ g.y1 <= c[2] /\ c[2] + 2 <= g.y2}

\* unary_union of the polygons with the given labels, as covered cells
UnionCells(polys, labels) == UNION {CellsOf(polys[l]) : l \in labels}

\* a geometry of a returned frame: what it covers, and whether its outline
\* is that of buffered polygons
Geometry(polys, labels, isBuffered) ==
    [cells |-> UnionCells(polys, labels), buffered |-> isBuffered]

\* a.touches(b): the polygons share a point, their interiors do not
Touches(a, b) == Intersects(a, b) /\ IntersectionArea(a, b) = 0

\* the union of a and b is one polygon: they overlap or share a piece of
\* edge (a single shared corner leaves two polygons)
Joined(a, b) ==
    /\ Intersects(a, b)
    /\ \/ Min(a.x2, b.x2) > Max(a.x1, b.x1)
       \/ Min(a.y2, b.y2) > Max(a.y1, b.y1)

RECURSIVE Reach(_, _, _)
\* the labels linked to those of S through pairs of adj
Reach(S, labels, adj) ==
    LET T == S \cup {m \in labels : \E l \in S : <<l, m>> \in adj}
    IN  IF T = S THEN S ELSE Reach(T, labels, adj)

\* the classes of labels linked through pairs of adj
Components(labels, adj) == {Reach({l}, labels, adj) : l \in labels}

RECURSIVE SortByLowest(_)
\* list(multipolygon.geoms): the parts as a list, here by lowest label
SortByLowest(parts) ==
    IF parts = {} THEN <<>>
    ELSE LET first == CHOOSE q \in parts : \A r \in parts : SetMin(q) <= SetMin(r)
         IN  <<first>> \o SortByLowest(parts \ {first})

\* mutant: a polygon of area exactly min_area is taken as small
IsSmallInclusive(g, minarea) == Area(g) <= minarea

\* geom.area < min_area
IsSmall(g, minarea) == Area(g) < minarea

\* merge_small_adjacent_polygons: the large polygons, then the parts of the
\* union of the small ones
MergeSmallAdjacentPolygons(polys, minarea) ==
    LET labels == 1..Len(polys)
        small_polygons == {l \in labels : IsSmall(polys[l], minarea)}
        large_polygons == SelectSeq([l \in labels |-> l],
                                    LAMBDA l : ~IsSmall(polys[l], minarea))
        parts == SortByLowest(Components(small_polygons,
                    {pr \in small_polygons \X small_polygons :
                        Joined(polys[pr[1]], polys[pr[2]])}))
    IN  [i \in 1..Len(large_polygons) |-> Geometry(polys, {large_polygons[i]}, FALSE)]
        \o [i \in 1..Len(parts) |-> Geometry(polys, parts[i], FALSE)]

\* the labels of a list of labels
Labels(remaining) == {remaining[i] : i \in 1..Len(remaining)}

\* mutant: the candidates are not filtered by touches
CandidatesNear(polys, remaining, base, distance) ==
    {l \in Labels(remaining) :
        PointDistanceSq(Centroid(polys[base]), polys[l]) <= distance * distance}

\* align_base: the polygons of the working set within max_merge_distance of
\* the base polygon's centroid that touch the base polygon
Candidates(polys, remaining, base, distance) ==
    {l \in Labels(remaining) :
        /\ PointDistanceSq(Centroid(polys[base]), polys[l]) <= distance * distance
        /\ Touches(polys[l], polys[base])}

\* data/align.py: the polygons of the working set within max_merge_distance
\* of the base polygon's centroid (the base polygon is one of them)
AlignCandidates(polys, remaining, base, distance) ==
    {l \in Labels(remaining) :
        PointDistanceSq(Centroid(polys[base]), polys[l]) <= distance * distance}

\* the cluster one pass of the loop makes around the first polygon left
Cluster(fn, polys, remaining, distance) ==
    {Head(remaining)} \cup
        IF fn = "align" THEN AlignCandidates(polys, remaining, Head(remaining), distance)
        ELSE Candidates(polys, remaining, Head(remaining), distance)

\* mutant: only the base polygon is dropped, the absorbed ones stay
DropBaseOnly(remaining, cluster) == Tail(remaining)

\* simplified_gdf.drop(candidates.index.tolist() + [base_index])
Drop(remaining, cluster) == SelectSeq(remaining, LAMBDA l : l \notin cluster)

\* mutant: drop(..., inplace=True), the rows are removed from the frame itself
FrameAfterDropInPlace(frame, dropped) ==
    [l \in DOMAIN frame |-> IF l \in dropped THEN NoGeometry ELSE frame[l]]

\* the frame the caller passed, after reference_gdf = reference_gdf.drop(...):
\* drop returns a new frame, to which the local name is bound again; the
\* frame it was called on keeps its rows
FrameAfterDrop(frame, dropped) == frame

RECURSIVE SimplifyReferencePolygons(_, _, _, _)
\* the whole clustering loop: the list of clusters
SimplifyReferencePolygons(fn, polys, remaining, distance) ==
    IF remaining = <<>> THEN <<>>
    ELSE LET cluster == Cluster(fn, polys, remaining, distance)
         IN  <<cluster>>
             \o SimplifyReferencePolygons(fn, polys, Drop(remaining, cluster), distance)

\* buffer every polygon, union, decompose: polygons that share a point are
\* dissolved into one part (the buffer is smaller than any gap of the grid)
SimplifyReferencePolygonsDissolve(polys) ==
    LET labels == 1..Len(polys)
        parts == SortByLowest(Components(labels,
                    {pr \in labels \X labels : Intersects(polys[pr[1]], polys[pr[2]])}))
    IN  [i \in 1..Len(parts) |-> Geometry(polys, parts[i], TRUE)]

InitSimplify ==
    /\ WorkerOff
    /\ LoadOff
    /\ AlignOff
    /\ DivideOff
    /\ AssignOff
    /\ entry \in {"align_base", "align", "merge_small", "main", "dissolve"}
    /\ reference_gdf \in SeqsUpTo(SimplifyPolys, MaxPolygons)
    /\ max_merge_distance \in MergeDistances
    /\ min_area \in MinAreas
    /\ simplified_gdf = [l \in 1..Len(reference_gdf) |-> l]
    /\ merged_polygons = <<>>
    /\ result_polygons = <<>>
    /\ spc = "call"

\* align_base.simplify_reference_polygons: one pass of the loop
SimplifyLoop ==
    /\ entry = "align_base" /\ spc = "call"
    /\ simplified_gdf # <<>>
    /\ LET cluster == Cluster("align_base", reference_gdf, simplified_gdf, max_merge_distance)
       IN  /\ merged_polygons' = Append(merged_polygons, cluster)
           /\ simplified_gdf' = Drop(simplified_gdf, cluster)
    /\ UNCHANGED <<entry, reference_gdf, max_merge_distance, min_area, result_polygons, spc>>
    /\ UNCHANGED notSimplifyVars

\* data/align.simplify_reference_polygons: one pass of the loop
AlignSimplifyLoop ==
    /\ entry = "align" /\ spc = "call"
    /\ simplified_gdf # <<>>
    /\ LET cluster == Cluster("align", reference_gdf, simplified_gdf, max_merge_distance)
       IN  /\ merged_polygons' = Append(merged_polygons, cluster)
           /\ simplified_gdf' = Drop(simplified_gdf, cluster)
           /\ reference_gdf' = FrameAfterDrop(reference_gdf, cluster)
    /\ UNCHANGED <<entry, max_merge_distance, min_area, result_polygons, spc>>
    /\ UNCHANGED notSimplifyVars

\* the working set is empty: the merged polygons are returned as a frame
SimplifyReturn ==
    /\ entry \in {"align_base", "align"} /\ spc = "call"
    /\ simplified_gdf = <<>>
    /\ result_polygons' = [c \in 1..Len(merged_polygons) |->
                              Geometry(reference_gdf, merged_polygons[c], FALSE)]
    /\ spc' = "done"
    /\ UNCHANGED <<entry, reference_gdf, max_merge_distance, min_area, simplified_gdf,
                   merged_polygons>>
    /\ UNCHANGED notSimplifyVars

\* merge_small_adjacent_polygons(reference_gdf, min_area)
MergeSmall ==
    /\ entry = "merge_small" /\ spc = "call"
    /\ result_polygons' = MergeSmallAdjacentPolygons(reference_gdf, min_area)
    /\ spc' = "done"
    /\ UNCHANGED <<entry, reference_gdf, max_merge_distance, min_area, simplified_gdf,
                   merged_polygons>>
    /\ UNCHANGED notSimplifyVars

\* main.py: simplify_reference_polygons(reference_gdf, max_merge_distance=
\* MAX_MERGE_DISTANCE) of modules/process/align.py, which buffers and
\* dissolves and does not read max_merge_distance
MainSimplify ==
    /\ entry = "main" /\ spc = "call"
    /\ result_polygons' = SimplifyReferencePolygonsDissolve(reference_gdf)
    /\ spc' = "done"
    /\ UNCHANGED <<entry, reference_gdf, max_merge_distance, min_area, simplified_gdf,
                   merged_polygons>>
    /\ UNCHANGED notSimplifyVars

\* dissolve.py: simplify_reference_polygons_dissolve(reference_gdf, buffer_distance)
DissolveSimplify ==
    /\ entry = "dissolve" /\ spc = "call"
    /\ result_polygons' = SimplifyReferencePolygonsDissolve(reference_gdf)
    /\ spc' = "done"
    /\ UNCHANGED <<entry, reference_gdf, max_merge_distance, min_area, simplified_gdf,
                   merged_polygons>>
    /\ UNCHANGED notSimplifyVars

NextSimplify ==
    \/ SimplifyLoop \/ AlignSimplifyLoop \/ SimplifyReturn
    \/ MergeSmall \/ MainSimplify \/ DissolveSimplify

SpecSimplify == InitSimplify /\ [][NextSimplify]_vars

\* the preprocessing call runs on: the interpreter does not stop in the
\* middle of the while loop
SpecSimplifyFair == SpecSimplify /\ WF_vars(NextSimplify)

(* -------------------------- alignment of targets that carry attribute columns *)

\* longest target collection of these runs
MaxAttributeTargets == 1

\* row.drop("geometry").to_dict() of a target file that has a column named
\* alignment (such as the output of an earlier run), and of one that has not
AttributeSetsOfFiles == {[nom |-> "roof"], [nom |-> "roof", alignment |-> "surveyed"]}

InitAttributes ==
    /\ WorkerOff
    /\ LoadOff
    /\ target_gdf \in SeqsUpTo([geometry : TargetGeoms, attributes : AttributeSetsOfFiles],
                               MaxAttributeTargets)
    /\ reference_polygons \in SeqsUpTo(ReferencePolys, MaxRefs)
    /\ max_distance \in MaxDistances
    /\ min_overlap_ratio \in MinOverlapRatios
    /\ idx = 0
    /\ aligned_data = <<>>
    /\ unaligned_data = <<>>
    /\ produced = <<>>
    /\ pc = "loop"
    /\ result = <<>>
    /\ DivideOff
    /\ AssignOff
    /\ SimplifyOff

SpecAttributes == InitAttributes /\ [][Next]_vars

\* any one call of the pipeline: a preprocessing pass or an alignment run
InitCalls == Init \/ InitSimplify

NextCalls == Next \/ NextSimplify

SpecCalls == InitCalls /\ [][NextCalls]_vars

(* ------------------------------------------------ main.py: load, simplify, align *)

\* config.TARGET_CRS, "EPSG:2154", as crs.to_string() spells it
TARGET_CRS == <<"E", "P", "S", "G", ":", "2", "1", "5", "4">>
\* another system a shapefile may be in, "EPSG:4326"
WGS84 == <<"E", "P", "S", "G", ":", "4", "3", "2", "6">>

Crs(name) == [defined |-> TRUE, name |-> name]

\* the CRS a shapefile may carry: the target system, another one, or none
FileCrs == {Crs(TARGET_CRS), Crs(WGS84), NoCrs}

\* s.startswith(prefix)
StartsWith(s, prefix) == Len(s) >= Len(prefix) /\ SubSeq(s, 1, Len(prefix)) = prefix

\* gdf.crs is None or not gdf.crs.to_string().startswith(target_crs)
CrsMismatch(crs, target_crs) == ~crs.defined \/ ~StartsWith(crs.name, target_crs)

\* the coordinates of a geometry of another system in the target system;
\* the transformation is stood for by a shift of one cell
ToCrs(g, crs, target_crs) ==
    IF ~IsPolygon(g) \/ crs.name = target_crs THEN g ELSE Translate(g, 2, 0)

\* the frame load_shapefiles returns for a file: converted when its CRS is
\* not the target system
LoadedGeometry(g, crs, target_crs) ==
    IF CrsMismatch(crs, target_crs) THEN ToCrs(g, crs, target_crs) ELSE g

LoadedCrs(crs, target_crs) == IF CrsMismatch(crs, target_crs) THEN Crs(target_crs) ELSE crs

\* the polygons of the reference files of these runs lie in one row of the
\* grid, so that polygons dissolved into one part form a rectangle
RowPolys == {g \in ReferencePolys : g.y1 = 0 /\ g.y2 = 2}

\* list(simplify_reference_polygons(reference_gdf).geometry) of
\* modules/process/align.py: the parts of the union of the buffered
\* polygons; the growth of the outline by buffer_distance is below the
\* resolution of the grid
DissolvedPolygons(polys) ==
    LET labels == 1..Len(polys)
        parts == SortByLowest(Components(labels,
                    {pr \in labels \X labels : Intersects(polys[pr[1]], polys[pr[2]])}))
    IN  [i \in 1..Len(parts) |->
            Rect(SetMin({polys[l].x1 : l \in parts[i]}), 0,
                 SetMax({polys[l].x2 : l \in parts[i]}), 2)]

InitMain ==
    /\ WorkerOff
    /\ DivideOff
    /\ AssignOff
    /\ SimplifyOff
    /\ target_file \in SeqsUpTo(TargetRows, MaxAttributeTargets)
    /\ reference_file \in SeqsUpTo(RowPolys, MaxRefs)
    /\ target_file_crs \in FileCrs
    /\ reference_file_crs \in FileCrs
    /\ target_gdf_crs = NoCrs
    /\ reference_gdf_crs = NoCrs
    /\ mpc = "load"
    /\ target_gdf = <<>>
    /\ reference_polygons = <<>>
    /\ max_distance \in MaxDistances
    /\ min_overlap_ratio = Ratio(1, 2)
    /\ idx = 0
    /\ aligned_data = <<>>
    /\ unaligned_data = <<>>
    /\ produced = <<>>
    /\ pc = "off"
    /\ result = <<>>

\* load_shapefiles returns: each frame whose CRS is not the target system
\* has been converted with to_crs
LoadShapefiles ==
    /\ mpc = "load"
    /\ target_file_crs.defined /\ reference_file_crs.defined
    /\ target_gdf' = [i \in 1..Len(target_file) |->
                         [target_file[i] EXCEPT !.geometry =
                             LoadedGeometry(@, target_file_crs, TARGET_CRS)]]
    /\ reference_gdf' = [i \in 1..Len(reference_file) |->
                            LoadedGeometry(reference_file[i], reference_file_crs, TARGET_CRS)]
    /\ target_gdf_crs' = LoadedCrs(target_file_crs, TARGET_CRS)
    /\ reference_gdf_crs' = LoadedCrs(reference_file_crs, TARGET_CRS)
    /\ mpc' = "simplify"
    /\ UNCHANGED <<target_file, reference_file, target_file_crs, reference_file_crs>>
    /\ UNCHANGED <<reference_polygons, max_distance, min_overlap_ratio, idx, aligned_data,
                   unaligned_data, produced, pc, result>>
    /\ UNCHANGED <<entry, max_merge_distance, min_area, simplified_gdf, merged_polygons,
                   result_polygons, spc>>
    /\ UNCHANGED <<divideVars, assignVars, workerVars>>

\* a file without CRS: to_crs raises ValueError, load_shapefiles logs it and
\* raises it again, main does not catch it
LoadShapefilesRaises ==
    /\ mpc = "load"
    /\ ~target_file_crs.defined \/ ~reference_file_crs.defined
    /\ mpc' = "error"
    /\ UNCHANGED <<target_file, reference_file, target_file_crs, reference_file_crs,
                   target_gdf_crs, reference_gdf_crs>>
    /\ UNCHANGED <<alignVars, divideVars, assignVars, simplifyVars, workerVars>>

\* main.py steps 2 and 3 up to the call: the reference frame is simplified,
\* its geometries are listed and align_target_to_reference_inside is entered
MainCallsAlign ==
    /\ mpc = "simplify"
    /\ reference_polygons' = DissolvedPolygons(reference_gdf)
    /\ pc' = "loop"
    /\ mpc' = "align"
    /\ UNCHANGED <<target_file, reference_file, target_file_crs, reference_file_crs,
                   target_gdf_crs, reference_gdf_crs>>
    /\ UNCHANGED <<target_gdf, max_distance, min_overlap_ratio, idx, aligned_data,
                   unaligned_data, produced, result>>
    /\ UNCHANGED <<divideVars, assignVars, simplifyVars, workerVars>>

\* main.py step 4: the returned records are made a frame and saved
MainSaveResults ==
    /\ mpc = "align" /\ pc = "done"
    /\ mpc' = "save"
    /\ UNCHANGED <<target_file, reference_file, target_file_crs, reference_file_crs,
                   target_gdf_crs, reference_gdf_crs>>
    /\ UNCHANGED <<alignVars, divideVars, assignVars, simplifyVars, workerVars>>

NextMain ==
    \/ LoadShapefiles \/ LoadShapefilesRaises \/ MainCallsAlign
    \/ ProcessRow \/ ProcessRowRaises \/ Return \/ MainSaveResults

SpecMain == InitMain /\ [][NextMain]_vars

(* ---------------------------------------------------------------- claims *)

Statuses == {"aligned", "adjusted", "not_aligned"}

Finished == 1..idx
RefIds == 1..Len(reference_polygons)
Occurrences(list, r) == Cardinality({k \in 1..Len(list) : list[k] = r})
Records(list) == {list[k] : k \in 1..Len(list)}

TargetGeom(i) == target_gdf[i].geometry
\* intersection_area(t, r) / area(t) for the reference at position j
OverlapWith(t, j) == Ratio(IntersectionArea(t, reference_polygons[j]), Area(t))
IntersectingRefs(t) == {j \in RefIds : Intersects(t, reference_polygons[j])}

\* C2 (as claimed): a target of positive area is classified aligned, with its
\* geometry unchanged, exactly when some reference intersects it and the
\* largest overlap ratio over the intersecting references is at least
\* min_overlap_ratio, min_overlap_ratio = 0 included.
C2_AlignedIffBestOverlapReaches ==
    \A i \in Finished :
        LET t == TargetGeom(i)
            rec == produced[i]
        IN  (IsPolygon(t) /\ Area(t) > 0) =>
                ((rec.alignment = "aligned" /\ rec.geometry = t)
                 <=> \E j \in IntersectingRefs(t) :
                         RatioGE(OverlapWith(t, j), min_overlap_ratio))

\* the positions of the references whose centroid is nearest to that of t
NearestRefs(t) ==
    {j \in RefIds :
        \A k \in RefIds :
            DistanceSq(Centroid(t), Centroid(reference_polygons[j]))
                <= DistanceSq(Centroid(t), Centroid(reference_polygons[k]))}
Lowest(S) == CHOOSE j \in S : \A k \in S : j <= k

C4_AdjustedIsTranslation ==
    \A i \in Finished :
        LET t == TargetGeom(i)
            rec == produced[i]
            g == rec.geometry
        IN  rec.alignment = "adjusted" =>
                LET r == reference_polygons[Lowest(NearestRefs(t))]
                    c == Centroid(t)
                    p == [x |-> IF c.x < r.x1 THEN r.x1 ELSE IF c.x > r.x2 THEN r.x2 ELSE c.x,
                          y |-> IF c.y < r.y1 THEN r.y1 ELSE IF c.y > r.y2 THEN r.y2 ELSE c.y]
                IN  /\ g.x1 - t.x1 = p.x - c.x /\ g.x2 - t.x2 = p.x - c.x
                    /\ g.y1 - t.y1 = p.y - c.y /\ g.y2 - t.y2 = p.y - c.y
                    /\ (g.x2 - g.x1) * (g.y2 - g.y1) = (t.x2 - t.x1) * (t.y2 - t.y1)
                    /\ g.x1 + g.x2 = 2 * p.x /\ g.y1 + g.y2 = 2 * p.y

\* an adjusted target of positive area that was moved
C4_Witness ==
    \E i \in Finished :
        /\ produced[i].alignment = "adjusted"
        /\ Area(TargetGeom(i)) > 0
        /\ produced[i].geometry.x1 # TargetGeom(i).x1

C6_ContainedIsAligned ==
    \A i \in Finished :
        LET t == TargetGeom(i)
            rec == produced[i]
        IN  (/\ IsPolygon(t)
             /\ Area(t) > 0
             /\ \E j \in RefIds : Within(t, reference_polygons[j])) =>
                /\ rec.alignment = "aligned"
                /\ rec.geometry = t
                /\ rec.overlap.num = rec.overlap.den

\* contained in the second reference only, with min_overlap_ratio = 1
C6_Witness ==
    \E i \in Finished :
        /\ Len(reference_polygons) = 2
        /\ IsPolygon(TargetGeom(i))
        /\ Area(TargetGeom(i)) > 0
        /\ ~Within(TargetGeom(i), reference_polygons[1])
        /\ Intersects(TargetGeom(i), reference_polygons[1])
        /\ Within(TargetGeom(i), reference_polygons[2])
        /\ min_overlap_ratio.num = min_overlap_ratio.den
        /\ produced[i].alignment = "aligned"

\* the positions of the intersecting references of maximum overlap ratio
BestRefs(t) ==
    {j \in IntersectingRefs(t) :
        \A k \in IntersectingRefs(t) : RatioGE(OverlapWith(t, j), OverlapWith(t, k))}

C8_AlignedRecordConsistent ==
    \A i \in Finished :
        LET t == TargetGeom(i)
            rec == produced[i]
        IN  rec.alignment = "aligned" =>
                /\ RatioGE(rec.overlap, min_overlap_ratio)
                /\ \E j \in IntersectingRefs(t) :
                       /\ RatioEQ(rec.overlap, OverlapWith(t, j))
                       /\ rec.ref_area = Area(reference_polygons[j])

\* aligned on the second of two intersecting references of different area
\* and ratio, the ratio being exactly min_overlap_ratio
C8_Witness ==
    \E i \in Finished :
        /\ produced[i].alignment = "aligned"
        /\ IntersectingRefs(TargetGeom(i)) = {1, 2}
        /\ BestRefs(TargetGeom(i)) = {2}
        /\ Area(reference_polygons[1]) # Area(reference_polygons[2])
        /\ RatioEQ(produced[i].overlap, min_overlap_ratio)
        /\ produced[i].overlap.num < produced[i].overlap.den

C10_InvalidTargetsSetAside ==
    /\ pc # "error"
    /\ pc = "done" =>
           \A k \in 1..Len(result) :
               IsPolygon(result[k].geometry) /\ Area(result[k].geometry) > 0

(* ------------------------------------------------- claims on the chunked runs *)

\* chunk numbers the failed-chunk report names
FailedChunkNumbers == {failed_chunks[f][2] : f \in 1..Len(failed_chunks)}

\* C11 (as claimed): when divide_roofs_by_parcelles of divpar6 has ended, every
\* chunk of the chunk list is in exactly one of: the results taken for the
\* output, the failed-chunk report; a chunk whose save failed included.
C11_EveryChunkAccounted ==
    (script = "divpar6" /\ dpc = "done") =>
        \A c \in 1..Len(divided_roofs_chunks) :
            (c \in merged_chunks) # (c \in FailedChunkNumbers)

\* the frame a chunk's worker computes when it does not fail
WorkerFrame(c) ==
    IF script = "divide"
    THEN DivideProcessIntersectionFromFile(divided_roofs_chunks[c], parcelles)
    ELSE ProcessIntersectionFromFile(divided_roofs_chunks[c], parcelles)

\* the frames of the successful chunks, in submission order
SuccessfulFrames ==
    [p \in 1..Len(temp_files) |->
        IF temp_files[p] \in merged_chunks THEN WorkerFrame(temp_files[p]) ELSE <<>>]

\* C12 (as claimed): an exception or timeout while one chunk is processed does
\* not abort a chunked run: no run ends with submitted chunks left
\* uncollected, and a run that ends has collected every submitted chunk and
\* written the concatenation of the successful chunks' results.
C12_ChunkFailureDoesNotAbort ==
    /\ dpc = "aborted" => loop_i = Len(temp_files)
    /\ dpc = "done" => /\ loop_i = Len(temp_files)
                       /\ output = Concat(SuccessfulFrames)

\* the same, for divide_roofs_by_parcelles of divpar6 only
C12_Divpar6Only == script = "divpar6" => C12_ChunkFailureDoesNotAbort

\* the rows of a frame that come from the target row fid
RowsOf(frame, fid) == SelectSeq(frame, LAMBDA piece : piece.fid = fid)

\* the rows one target row gives when it meets every reference polygon
FullScan(row) == OverlayRow(row, parcelles, 1..Len(parcelles), 1)

C14_ArrivalOrderInsensitive ==
    apc = "done" =>
        /\ Len(output_gdf) = Len(roofs_gdf)
        /\ \A fid \in 1..Len(roofs_gdf) :
              LET found == FindNearestAddressInParcel(
                               fid, roofs_gdf, address_gdf, parcels_gdf,
                               RoofToParcelMapping(roofs_gdf, parcels_gdf))
              IN  output_gdf[fid] = [fid |-> fid, geometry |-> roofs_gdf[fid].geometry,
                                     numero |-> found.address_numero,
                                     dist_to_addr |-> found.distance,
                                     parcel_id |-> found.parcel_id]

\* a finished run whose results arrived out of roof order, with two roofs
\* that got different addresses
C14_Witness ==
    /\ apc = "done"
    /\ \E i, j \in 1..Len(results) :
          /\ i < j
          /\ results[i].roof_idx > results[j].roof_idx
          /\ results[i].address_numero # results[j].address_numero

\* a chunk list is a partition of rows into contiguous, non-empty, pairwise
\* disjoint chunks in the original order
IsContiguousPartition(chunks, rows) ==
    /\ \A c \in 1..Len(chunks) : Len(chunks[c]) >= 1
    /\ Concat(chunks) = rows
    /\ \A c, d \in 1..Len(chunks) :
          c # d => {chunks[c][i] : i \in 1..Len(chunks[c])}
                       \cap {chunks[d][i] : i \in 1..Len(chunks[d])} = {}

\* C15: the chunk list each script builds is a partition of its collection
\* into contiguous, non-empty, pairwise disjoint chunks that hold every row
\* exactly once and in the original order.
C15_ChunksPartition ==
    /\ apc # "split" =>
          IsContiguousPartition(roof_chunks, [i \in 1..Len(roofs_gdf) |-> roofs_gdf[i].fid])
    /\ dpc # "split" => IsContiguousPartition(divided_roofs_chunks, divided_roofs)

\* chunk lists of several chunks of several rows whose last chunk is shorter
C15_Witness ==
    /\ apc # "split" /\ dpc # "split"
    /\ Len(roof_chunks) >= 2 /\ Len(roof_chunks[1]) >= 2
    /\ Len(roof_chunks[Len(roof_chunks)]) < Len(roof_chunks[1])
    /\ Len(divided_roofs_chunks) >= 2 /\ Len(divided_roofs_chunks[1]) >= 2
    /\ Len(divided_roofs_chunks[Len(divided_roofs_chunks)]) < Len(divided_roofs_chunks[1])

\* C16 (as claimed): the failed chunks of a finished run are handed back to
\* the caller as a list, nothing is written to disk for them, and no failed
\* chunk is processed again by the coordinator.
C16_FailedChunksReturnedInMemory ==
    (script = "divpar6" /\ dpc = "done" /\ failed_chunks # <<>>) =>
        /\ return_value # "None"
        /\ failed_chunks_dir = {}
        /\ FailedChunkNumbers \cap merged_chunks = {}

(* ------------------------------------- claims on the reference preprocessing *)

RefLabels == 1..Len(reference_gdf)

\* the seed-centred link of the clustering pass: m touches l and lies within
\* max_merge_distance of l's centroid
Absorbs(l, m) ==
    /\ l # m
    /\ Touches(reference_gdf[m], reference_gdf[l])
    /\ PointDistanceSq(Centroid(reference_gdf[l]), reference_gdf[m])
           <= max_merge_distance * max_merge_distance

\* edges of the graph of polygons that are both proximate and boundary-adjacent
GraphEdges == {pr \in RefLabels \X RefLabels : Absorbs(pr[1], pr[2]) \/ Absorbs(pr[2], pr[1])}

ConnectedComponents == Components(RefLabels, GraphEdges)

ClusterSet == {merged_polygons[c] : c \in 1..Len(merged_polygons)}

\* C17 (as claimed): the clusters the greedy pass of align_base returns are
\* the connected components of the proximity-and-adjacency graph.
C17_GreedyIsConnectedComponents ==
    (entry = "align_base" /\ spc = "done") => ClusterSet = ConnectedComponents

\* C17 (amended): every cluster of the greedy pass is a seed with polygons
\* the seed absorbs, so it lies inside one connected component; the clusters
\* are pairwise disjoint and, when the pass has ended, cover the input.
C17_ClustersRefineComponents ==
    entry = "align_base" =>
        /\ \A c \in 1..Len(merged_polygons) :
              /\ \E comp \in ConnectedComponents : merged_polygons[c] \subseteq comp
              /\ \E seed \in merged_polygons[c] :
                    \A m \in merged_polygons[c] \ {seed} : Absorbs(seed, m)
        /\ \A c, d \in 1..Len(merged_polygons) :
              c # d => merged_polygons[c] \cap merged_polygons[d] = {}
        /\ spc = "done" => UNION ClusterSet = RefLabels

\* a finished pass that split one connected component into two clusters, one
\* of them of several polygons
C17_Witness ==
    /\ entry = "align_base" /\ spc = "done"
    /\ \E c, d \in 1..Len(merged_polygons) :
          /\ c # d
          /\ Cardinality(merged_polygons[c]) >= 2
          /\ \E comp \in ConnectedComponents :
                merged_polygons[c] \cup merged_polygons[d] \subseteq comp

\* the rearrangements of a list
Rearrangements(seq) ==
    {[i \in 1..Len(seq) |-> seq[p[i]]] :
        p \in {q \in [1..Len(seq) -> 1..Len(seq)] :
                  \A i, j \in 1..Len(seq) : i # j => q[i] # q[j]}}

\* the set of geometries the clustering pass returns for a frame
ClusterGeometries(fn, polys) ==
    LET clusters == SimplifyReferencePolygons(fn, polys, [l \in 1..Len(polys) |-> l],
                                              max_merge_distance)
    IN  {UnionCells(polys, clusters[c]) : c \in 1..Len(clusters)}

\* C18 (as claimed): the clustering pass gives the same set of output
\* clusters for every rearrangement of the same reference polygons.
C18_ClustersIndependentOfOrder ==
    (entry \in {"align_base", "align"} /\ spc = "done") =>
        \A other \in Rearrangements(reference_gdf) :
            ClusterGeometries(entry, other)
                = {result_polygons[c].cells : c \in 1..Len(result_polygons)}

\* labels of the polygons merge_small_adjacent_polygons takes as small
SmallLabels == {l \in RefLabels : Area(reference_gdf[l]) < min_area}
LargeLabels == {l \in RefLabels : Area(reference_gdf[l]) >= min_area}

\* small polygons linked through small polygons that touch or overlap
SmallLinked == Components(SmallLabels,
                   {pr \in SmallLabels \X SmallLabels :
                       Intersects(reference_gdf[pr[1]], reference_gdf[pr[2]])})

\* number of large polygons at the head of the returned list
LargeCount == Cardinality(LargeLabels)

\* the i-th large polygon, in input order
NthLarge(i) ==
    CHOOSE l \in LargeLabels : Cardinality({m \in LargeLabels : m <= l}) = i

\* C19: merge_small_adjacent_polygons returns the polygons of area >= min_area
\* unchanged, one entry each in input order, followed by parts that together
\* cover exactly the union of the polygons of area < min_area; every small
\* polygon lies in one part, two small polygons lie in the same part only if
\* they are linked through touching or overlapping small polygons, two that
\* overlap or share a piece of edge lie in the same part, and the parts do
\* not share area.
C19_MergeSmallOutput ==
    (entry = "merge_small" /\ spc = "done") =>
        /\ Len(result_polygons) >= LargeCount
        /\ \A i \in 1..LargeCount :
              result_polygons[i] = [cells |-> CellsOf(reference_gdf[NthLarge(i)]),
                                    buffered |-> FALSE]
        /\ LET parts == [i \in 1..(Len(result_polygons) - LargeCount) |->
                            result_polygons[LargeCount + i]]
           IN  /\ UNION {parts[i].cells : i \in 1..Len(parts)}
                     = UNION {CellsOf(reference_gdf[l]) : l \in SmallLabels}
               /\ \A i \in 1..Len(parts) : parts[i].cells # {} /\ ~parts[i].buffered
               /\ \A i, j \in 1..Len(parts) : i # j => parts[i].cells \cap parts[j].cells = {}
               /\ \A l \in SmallLabels :
                     \E i \in 1..Len(parts) : CellsOf(reference_gdf[l]) \subseteq parts[i].cells
               /\ \A l, m \in SmallLabels :
                     (\E i \in 1..Len(parts) :
                         CellsOf(reference_gdf[l]) \cup CellsOf(reference_gdf[m])
                             \subseteq parts[i].cells)
                     => \E comp \in SmallLinked : {l, m} \subseteq comp
               /\ \A l, m \in SmallLabels :
                     Joined(reference_gdf[l], reference_gdf[m])
                     => \E i \in 1..Len(parts) :
                            CellsOf(reference_gdf[l]) \cup CellsOf(reference_gdf[m])
                                \subseteq parts[i].cells

\* a call whose list holds a polygon of area exactly min_area, kept whole
\* although a small polygon touches it, and small polygons that touch only
\* at a corner and stay two parts
C19_Witness ==
    /\ entry = "merge_small" /\ spc = "done"
    /\ \E l \in LargeLabels, m \in SmallLabels :
          /\ Area(reference_gdf[l]) = min_area
          /\ Joined(reference_gdf[l], reference_gdf[m])
    /\ \E l, m \in SmallLabels :
          /\ Touches(reference_gdf[l], reference_gdf[m])
          /\ ~Joined(reference_gdf[l], reference_gdf[m])
    /\ Len(result_polygons) = 3

\* C20 (as claimed): the pipeline of main.py, which calls
\* simplify_reference_polygons(reference_gdf, max_merge_distance=..), gets the
\* result of the clustering pass for that max_merge_distance: the clusters of
\* the pass, with outlines that no buffer has moved.
C20_MainGetsClusteringPass ==
    (entry = "main" /\ spc = "done") =>
        LET clusters == SimplifyReferencePolygons("align_base", reference_gdf,
                            [l \in RefLabels |-> l], max_merge_distance)
        IN  result_polygons = [c \in 1..Len(clusters) |->
                                  [cells |-> UnionCells(reference_gdf, clusters[c]),
                                   buffered |-> FALSE]]

\* the records of a list whose alignment is one of the given values, in list order
WithStatus(list, statuses) == SelectSeq(list, LAMBDA r : r.alignment \in statuses)

\* C29: the list align_target_to_reference_inside returns has one record per
\* input target; the aligned and adjusted records come first, in the order
\* of their targets in the input, and the not_aligned records follow, in the
\* order of their targets in the input.
C29_AlignedFirstInInputOrder ==
    pc = "done" =>
        /\ Len(result) = Len(target_gdf)
        /\ result = WithStatus(produced, {"aligned", "adjusted"})
                        \o WithStatus(produced, {"not_aligned"})

\* a run where the returned order differs from the input order
C29_Witness ==
    /\ pc = "done"
    /\ Len(target_gdf) = 2
    /\ produced[1].alignment = "not_aligned"
    /\ produced[2].alignment = "aligned"
    /\ result[1].alignment = "aligned"

\* an output record read back as a target row: its geometry, and its other
\* fields as the attributes
AsTargetRow(record) ==
    [geometry |-> record.geometry,
     attributes |-> [k \in DOMAIN record \ {"geometry"} |-> record[k]]]

\* C24: the geometry of an aligned output record, aligned again as a target
\* against the same reference list with the same max_distance and
\* min_overlap_ratio, is aligned again: same geometry, same matched
\* reference (position and area), same overlap ratio.
C24_AlignedIsIdempotent ==
    \A i \in Finished :
        produced[i].alignment = "aligned" =>
            LET first == OverlapLoop(TargetGeom(i), reference_polygons,
                                     Len(reference_polygons))
                second == OverlapLoop(produced[i].geometry, reference_polygons,
                                      Len(reference_polygons))
                again == AlignRow(AsTargetRow(produced[i]), reference_polygons,
                                  max_distance, min_overlap_ratio)
            IN  /\ ~again.raised
                /\ again.list = "aligned_data"
                /\ again.record.alignment = "aligned"
                /\ again.record.geometry = produced[i].geometry
                /\ second.best_match = first.best_match
                /\ again.record.ref_area = produced[i].ref_area
                /\ RatioEQ(again.record.overlap, produced[i].overlap)

\* an aligned record whose target reaches beyond its matched reference and
\* intersects a second reference as well
C24_Witness ==
    \E i \in Finished :
        /\ produced[i].alignment = "aligned"
        /\ RatioGT(Ratio(1, 1), produced[i].overlap)
        /\ Cardinality(IntersectingRefs(TargetGeom(i))) = 2

\* what C30 says of a list of chunks cut from n rows for w workers with
\* fan-out multiplier k
ChunkCountLaw(chunks, n, w, k) ==
    LET size == IF n \div (w * k) >= 1 THEN n \div (w * k) ELSE 1
        count == Len(chunks)
    IN  /\ count * size >= n /\ (count > 0 => (count - 1) * size < n)
        /\ n < w * k => count = n
        /\ n >= w * k => (w * k <= count /\ count <= 2 * w * k - 1)
        /\ \A c \in 1..count :
              /\ Len(chunks[c]) <= size
              /\ c < count => Len(chunks[c]) = size

\* C30: with n targets, w workers and fan-out multiplier k, the chunk size
\* is max(n // (w*k), 1) and there are ceil(n / chunk_size) chunks: n of
\* them when n < w*k, between w*k and 2*w*k - 1 when n >= w*k; no chunk is
\* longer than the chunk size and only the last may be shorter.
C30_ChunkCount ==
    /\ apc # "split" =>
          ChunkCountLaw(roof_chunks, Len(roofs_gdf), pool_processes, FANOUT_ASIGN)
    /\ (script = "divpar6" /\ dpc # "split") =>
          /\ chunk_size = (IF Len(divided_roofs) \div (num_processes * FANOUT_DIVPAR6) >= 1
                           THEN Len(divided_roofs) \div (num_processes * FANOUT_DIVPAR6)
                           ELSE 1)
          /\ ChunkCountLaw(divided_roofs_chunks, Len(divided_roofs), num_processes,
                           FANOUT_DIVPAR6)

\* one collection cut into the largest number of chunks the law allows
\* (2*w*k - 1) with one fan-out, and into chunks of several rows with a
\* shorter last chunk with the other
C30_Witness ==
    /\ script = "divpar6" /\ dpc # "split" /\ apc # "split"
    /\ Len(divided_roofs) >= num_processes * FANOUT_DIVPAR6
    /\ Len(divided_roofs_chunks) = 2 * num_processes * FANOUT_DIVPAR6 - 1
    /\ Len(roofs_gdf) >= pool_processes * FANOUT_ASIGN
    /\ Len(roof_chunks[1]) >= 2
    /\ Len(roof_chunks[Len(roof_chunks)]) < Len(roof_chunks[1])

\* the seed of a cluster: the working set keeps the input order, so the
\* first polygon left is the one of lowest label
Seed(cluster) == SetMin(cluster)

\* C26 (as claimed): in every clustering variant a polygon is absorbed into
\* the seed's cluster only if it lies within max_merge_distance of the
\* seed's centroid and touches the seed; a polygon that is near the seed
\* but does not touch it stays out of the cluster.
C26_AbsorbedOnlyIfNearAndTouching ==
    entry \in {"align_base", "align"} =>
        \A c \in 1..Len(merged_polygons) :
            \A l \in merged_polygons[c] \ {Seed(merged_polygons[c])} :
                LET seed == reference_gdf[Seed(merged_polygons[c])]
                IN  /\ PointDistanceSq(Centroid(seed), reference_gdf[l])
                           <= max_merge_distance * max_merge_distance
                    /\ Touches(reference_gdf[l], seed)

\* the same statement for the variant of align_base.py alone
C26_AlignBaseOnly == entry = "align_base" => C26_AbsorbedOnlyIfNearAndTouching

\* the clustering variants of simplify_reference_polygons
ClusteringVariants == {"align_base", "align"}

\* the labels consumed so far, and how many clusters hold a label
Consumed == UNION {merged_polygons[c] : c \in 1..Len(merged_polygons)}
ClustersHolding(l) == Cardinality({c \in 1..Len(merged_polygons) : l \in merged_polygons[c]})

\* at every point of the loop: each input polygon is either still in the
\* working set or in exactly one cluster, never both; there are at most as
\* many clusters (iterations so far) as input polygons; at the return the
\* working set is empty
C27_EveryPolygonConsumedOnce ==
    entry \in ClusteringVariants =>
        /\ \A l \in RefLabels :
              IF l \in Labels(simplified_gdf)
              THEN ClustersHolding(l) = 0
              ELSE ClustersHolding(l) = 1
        /\ Consumed \subseteq RefLabels
        /\ Len(merged_polygons) + Len(simplified_gdf) <= Len(reference_gdf)
        /\ spc = "done" =>
              /\ simplified_gdf = <<>>
              /\ Len(result_polygons) = Len(merged_polygons)
              /\ Len(result_polygons) <= Len(reference_gdf)

\* one iteration removes the seed, and with it at least one polygon
C27_IterationRemovesSeed ==
    (entry \in ClusteringVariants /\ merged_polygons' # merged_polygons) =>
        /\ Len(merged_polygons') = Len(merged_polygons) + 1
        /\ Len(simplified_gdf') < Len(simplified_gdf)
        /\ Head(simplified_gdf) \notin Labels(simplified_gdf')
        /\ Head(simplified_gdf) \in merged_polygons'[Len(merged_polygons')]

\* C27: in every clustering variant each loop iteration removes at least
\* the seed from the working set, every input polygon is consumed by
\* exactly one iteration, there are never more output geometries than input
\* polygons, and the loop terminates with the working set empty.
C27_ClusteringTerminates ==
    /\ []C27_EveryPolygonConsumedOnce
    /\ [][C27_IterationRemovesSeed]_vars
    /\ (entry \in ClusteringVariants) ~> (spc = "done" /\ simplified_gdf = <<>>)

\* a finished clustering of three polygons in two iterations
C27_Witness ==
    /\ entry \in ClusteringVariants /\ spc = "done"
    /\ Len(reference_gdf) = 3
    /\ Len(merged_polygons) = 2
    /\ \E c \in 1..2 : Cardinality(merged_polygons[c]) = 2

\* C23: no step of a preprocessing pass (merge-small, clustering, dissolve)
\* and no step of an alignment run changes the reference collection or the
\* target collection the caller passed; in particular every target of an
\* alignment run is evaluated against the same reference list.
C23_CallerCollectionsUnchanged ==
    [][/\ reference_gdf' = reference_gdf
       /\ target_gdf' = target_gdf
       /\ reference_polygons' = reference_polygons]_vars

\* the clustering pass of data/align.py has dropped every row of its
\* working frame, some of them absorbed into another polygon's cluster
C23_Witness ==
    /\ entry = "align" /\ spc = "done"
    /\ Len(reference_gdf) = 3
    /\ Len(merged_polygons) < Len(reference_gdf)
    /\ simplified_gdf = <<>>

\* the fields the alignment adds to a record
AddedFields == {"alignment", "ref_area", "overlap", "geometry"}

\* C22 (as claimed): every output record carries every attribute of its
\* input target with the input's value, and has no other fields than those
\* and the added ones; an input attribute named like an added field keeps
\* its value too.
C22_InputAttributesPreserved ==
    \A i \in Finished :
        /\ DOMAIN produced[i] \subseteq DOMAIN target_gdf[i].attributes \cup AddedFields
        /\ \A a \in DOMAIN target_gdf[i].attributes :
              /\ a \in DOMAIN produced[i]
              /\ produced[i][a] = target_gdf[i].attributes[a]

\* the same statement for the attributes that are not named like an added field
C22_OtherAttributesPreserved ==
    \A i \in Finished :
        /\ DOMAIN produced[i] \subseteq DOMAIN target_gdf[i].attributes \cup AddedFields
        /\ \A a \in DOMAIN target_gdf[i].attributes \ AddedFields :
              /\ a \in DOMAIN produced[i]
              /\ produced[i][a] = target_gdf[i].attributes[a]

\* C25 (as claimed): when the two shapefiles are not in the same coordinate
\* reference system the run stops with an error at loading: no target is
\* aligned and no per-target record is made.
C25_CrsMismatchIsFatal ==
    target_file_crs # reference_file_crs =>
        /\ mpc \in {"load", "error"}
        /\ idx = 0
        /\ produced = <<>>

\* what the code does instead: whenever the alignment is entered, both
\* frames are in the target system
C25_FramesInTargetCrs ==
    mpc \in {"simplify", "align", "save"} =>
        /\ target_gdf_crs = Crs(TARGET_CRS)
        /\ reference_gdf_crs = Crs(TARGET_CRS)

(* ------------- align_target_to_reference with an R-tree index (old script/align12.py) *)

\* longest target collection and longest reference list of these runs
MaxIndexTargets == 1
MaxIndexRefs == 2

\* polygons that are not rectangles: unions of cells of a 3 x 3 grid, a cell
\* named by its lower-left corner
CellPoly(cells) == [cells |-> cells]

IndexPolys ==
    {CellPoly({<<0, 0>>}), CellPoly({<<4, 0>>}), CellPoly({<<2, 2>>}),
     CellPoly({<<2, 0>>, <<4, 0>>}), CellPoly({<<4, 0>>, <<4, 2>>}),
     CellPoly({<<0, 0>>, <<2, 0>>, <<4, 0>>}),
     CellPoly({<<0, 0>>, <<0, 2>>, <<0, 4>>, <<2, 4>>, <<4, 4>>})}

\* polygon.bounds
Bounds(g) ==
    Rect(SetMin({c[1] : c \in g.cells}), SetMin({c[2] : c \in g.cells}),
         SetMax({c[1] : c \in g.cells}) + 2, SetMax({c[2] : c \in g.cells}) + 2)

\* a.intersects(b) for unions of cells: two of their cells share a point
CellsIntersect(a, b) ==
    \E c \in a.cells, d \in b.cells :
        /\ c[1] - d[1] \in -2..2
        /\ c[2] - d[2] \in -2..2

\* a.intersection(b).area
CellsIntersectionArea(a, b) == 4 * Cardinality(a.cells \cap b.cells)

\* mutant: the index is asked for the boxes that lie inside the query box
IndexContained(refs, box) ==
    {pos \in 1..Len(refs) : Within(Bounds(refs[pos]), box)}

\* the ids idx.intersection(box) yields, as a set: the inserted boxes that
\* intersect the query box
IndexIntersection(refs, box) ==
    {pos \in 1..Len(refs) : Intersects(Bounds(refs[pos]), box)}

\* the orders in which the index may yield a set of ids: rtree documents none
YieldOrders(ids) ==
    {order \in [1..Cardinality(ids) -> ids] :
        \A i, j \in 1..Cardinality(ids) : i # j => order[i] # order[j]}

\* the list of all positions, the order of a loop over reference_polygons
AllPositions(refs) == [pos \in 1..Len(refs) |-> pos]

RECURSIVE BestOfCandidates(_, _, _, _)
\* the loop over the candidates after the first k of them
BestOfCandidates(target_geom, refs, candidates, k) ==
    IF k = 0
    THEN [best_match |-> 0, max_overlap_area |-> 0]
    ELSE LET s == BestOfCandidates(target_geom, refs, candidates, k - 1)
             ref == refs[candidates[k]]
         IN  IF CellsIntersect(target_geom, ref)
                  /\ CellsIntersectionArea(target_geom, ref) > s.max_overlap_area
             THEN [best_match |-> candidates[k],
                   max_overlap_area |-> CellsIntersectionArea(target_geom, ref)]
             ELSE s

\* the record of a row, from what the loop over the candidates found
Align12Record(attributes, target_geom, found) ==
    LET a1 == Put(attributes, "alignment_status",
                  IF found.best_match # 0 THEN "aligned" ELSE "not_aligned")
        a2 == Put(a1, "overlap_area", found.max_overlap_area)
    IN  Put(a2, "geometry", target_geom)

InitIndex ==
    /\ WorkerOff
    /\ LoadOff
    /\ DivideOff
    /\ AssignOff
    /\ SimplifyOff
    /\ target_gdf \in SeqsUpTo([geometry : IndexPolys \cup {NoGeometry},
                                attributes : AttributeSets], MaxIndexTargets)
    /\ reference_polygons \in SeqsUpTo(IndexPolys, MaxIndexRefs)
    /\ max_distance = 2
    /\ min_overlap_ratio = Ratio(0, 2)
    /\ idx = 0
    /\ aligned_data = <<>>
    /\ unaligned_data = <<>>
    /\ produced = <<>>
    /\ pc = "index"
    /\ result = <<>>

\* one pass of the loop over the rows: the index is queried with the
\* target's bounds and the candidates are scanned in the order it yields them
Align12ProcessRow ==
    /\ pc = "index"
    /\ idx < Len(target_gdf)
    /\ IsPolygon(target_gdf[idx + 1].geometry)
    /\ LET row == target_gdf[idx + 1]
       IN  \E candidates \in YieldOrders(IndexIntersection(reference_polygons,
                                                           Bounds(row.geometry))) :
              LET found == BestOfCandidates(row.geometry, reference_polygons,
                                            candidates, Len(candidates))
                  record == Align12Record(row.attributes, row.geometry, found)
              IN  /\ aligned_data' = IF found.best_match # 0
                                     THEN Append(aligned_data, record) ELSE aligned_data
                  /\ unaligned_data' = IF found.best_match # 0
                                       THEN unaligned_data ELSE Append(unaligned_data, record)
                  /\ produced' = Append(produced,
                                        [row |-> idx + 1, candidates |-> candidates,
                                         best_match |-> found.best_match, record |-> record])
    /\ idx' = idx + 1
    /\ UNCHANGED <<target_gdf, reference_polygons, max_distance, min_overlap_ratio,
                   pc, result>>
    /\ UNCHANGED notAlignVars

\* a row without geometry is skipped with a warning
Align12SkipRow ==
    /\ pc = "index"
    /\ idx < Len(target_gdf)
    /\ ~IsPolygon(target_gdf[idx + 1].geometry)
    /\ idx' = idx + 1
    /\ UNCHANGED <<target_gdf, reference_polygons, max_distance, min_overlap_ratio,
                   aligned_data, unaligned_data, produced, pc, result>>
    /\ UNCHANGED notAlignVars

\* return aligned_data + unaligned_data
Align12Return ==
    /\ pc = "index"
    /\ idx = Len(target_gdf)
    /\ result' = ReturnValue(aligned_data, unaligned_data)
    /\ pc' = "done"
    /\ UNCHANGED <<target_gdf, reference_polygons, max_distance, min_overlap_ratio,
                   idx, aligned_data, unaligned_data, produced>>
    /\ UNCHANGED notAlignVars

NextIndex == Align12ProcessRow \/ Align12SkipRow \/ Align12Return

SpecIndex == InitIndex /\ [][NextIndex]_vars

\* the set of positions a sequence of candidates holds
CandidateSet(candidates) == {candidates[i] : i \in 1..Len(candidates)}

\* what a scan of the whole reference list finds for the target of row i
FullScanOf(i) ==
    BestOfCandidates(target_gdf[i].geometry, reference_polygons,
                     AllPositions(reference_polygons), Len(reference_polygons))

\* the index loses no match: its candidates are the references whose
\* bounding box intersects the target's, the candidates that intersect the
\* target are all the references that do, and status and overlap area are
\* those of a full scan
C21_NoMatchLost ==
    \A h \in 1..Len(produced) :
        LET t == target_gdf[produced[h].row].geometry
            full == FullScanOf(produced[h].row)
        IN  /\ CandidateSet(produced[h].candidates) =
                   {pos \in 1..Len(reference_polygons) :
                       Intersects(Bounds(reference_polygons[pos]), Bounds(t))}
            /\ {pos \in CandidateSet(produced[h].candidates) :
                   CellsIntersect(t, reference_polygons[pos])}
                 = {pos \in 1..Len(reference_polygons) :
                       CellsIntersect(t, reference_polygons[pos])}
            /\ produced[h].record.overlap_area = full.max_overlap_area
            /\ (produced[h].record.alignment_status = "aligned") <=> (full.best_match # 0)

C21_Witness ==
    \E h \in 1..Len(produced) :
        LET t == target_gdf[produced[h].row].geometry
        IN  /\ Len(produced[h].candidates) = 2
            /\ \E pos \in 1..2 : ~CellsIntersect(t, reference_polygons[pos])
            /\ produced[h].record.alignment_status = "aligned"

(* ---------------------- process_with_timeout in a pool worker (divpar6.py, divpar3.py) *)

\* most chunks one worker is handed in a run
MaxWorkerTasks == 2

\* the try blocks the wrapped function goes through: divpar6 loads, filters
\* spatially, overlays and filters by geometry type, each in a try of its
\* own; divpar3 has one try around its whole body
FuncStages(s) == IF s = "divpar6" THEN 4 ELSE 1

\* the except clause that catches an exception raised in a try body of the
\* wrapped function: the step's own in divpar6, the outer one in divpar3
CatchingHandler(s) == IF s = "divpar6" THEN 1 ELSE 2

\* what the wrapped function returns when it ran to its end: (result, True)
\* in divpar6, the result alone in divpar3
SuccessValue(s, chunk, polys) ==
    [frame |-> ProcessIntersectionFromFile(chunk, polys),
     flag |-> IF s = "divpar6" THEN "True" ELSE "none",
     cause |-> "ok"]

\* return gpd.GeoDataFrame(geometry=[]), False (divpar6) or the empty frame
\* alone (divpar3)
FailureValue(s, why) ==
    [frame |-> <<>>, flag |-> IF s = "divpar6" THEN "False" ELSE "none", cause |-> why]

\* mutant: the finally clause does not cancel the alarm
AlarmLeftArmed(armed) == armed

\* finally: signal.alarm(0)
AlarmCancelled(armed) == FALSE

\* what the pool gets for a call: its value, or the exception that left it
TaskResult(chunk, val, exception) ==
    [chunk |-> chunk, frame |-> val.frame, flag |-> val.flag, cause |-> val.cause,
     raised |-> exception, fired |-> alarm_fired]

InitWorker ==
    /\ LoadOff
    /\ AlignOff
    /\ SimplifyOff
    /\ AssignOff
    /\ WorkerOff
    /\ script \in {"divpar6", "divpar3"}
    /\ divided_roofs \in {RoofRows(g) : g \in SeqsUpTo(RoofGeoms, MaxWorkerTasks)}
    /\ parcelles \in ParcelLists
    /\ num_processes = 1
    /\ chunk_size = 1
    /\ divided_roofs_chunks = Chunks(divided_roofs, 1)
    /\ temp_files = [c \in 1..Len(divided_roofs) |-> c]
    /\ loop_i = 0
    /\ processed_results = <<>>
    /\ failed_chunks = <<>>
    /\ failed_chunks_dir = {}
    /\ output = <<>>
    /\ return_value = "None"
    /\ merged_chunks = {}
    /\ dpc = "idle"

workerFrame == <<script, divided_roofs, parcelles, num_processes, chunk_size,
                 divided_roofs_chunks, temp_files, failed_chunks, failed_chunks_dir,
                 output, return_value, merged_chunks>>

\* process_with_timeout is entered: the handler is installed, the alarm
\* armed, the wrapped function called inside the try
ProcessWithTimeoutEnter ==
    /\ dpc = "idle"
    /\ loop_i < Len(temp_files)
    /\ alarm' = TRUE
    /\ func_stage' = 1
    /\ handler_depth' = 0
    /\ alarm_fired' = "no"
    /\ call_value' = NoValue
    /\ dpc' = "func"
    /\ UNCHANGED <<workerFrame, loop_i, processed_results>>
    /\ UNCHANGED <<alignVars, assignVars, simplifyVars, loadVars>>

\* a try body of the wrapped function runs to its end; after the last one
\* the function returns its result
FuncStageDone ==
    /\ dpc = "func" /\ handler_depth = 0
    /\ IF func_stage < FuncStages(script)
       THEN /\ func_stage' = func_stage + 1
            /\ UNCHANGED <<call_value, dpc>>
       ELSE /\ call_value' = SuccessValue(script, divided_roofs_chunks[temp_files[loop_i + 1]],
                                          parcelles)
            /\ dpc' = "try"
            /\ UNCHANGED func_stage
    /\ UNCHANGED <<workerFrame, loop_i, processed_results, alarm, handler_depth, alarm_fired>>
    /\ UNCHANGED <<alignVars, assignVars, simplifyVars, loadVars>>

\* a try body of the wrapped function throws (an unreadable file, a failing
\* overlay): its except Exception clause is entered
FuncStageRaises ==
    /\ dpc = "func" /\ handler_depth = 0
    /\ handler_depth' = CatchingHandler(script)
    /\ UNCHANGED <<workerFrame, loop_i, processed_results, alarm, func_stage, alarm_fired,
                   call_value, dpc>>
    /\ UNCHANGED <<alignVars, assignVars, simplifyVars, loadVars>>

\* an except clause of the wrapped function prints and returns the failure value
FuncHandlerReturns ==
    /\ dpc = "func" /\ handler_depth > 0
    /\ call_value' = FailureValue(script, IF alarm_fired = "no" THEN "exception" ELSE "timeout")
    /\ dpc' = "try"
    /\ UNCHANGED <<workerFrame, loop_i, processed_results, alarm, func_stage, handler_depth,
                   alarm_fired>>
    /\ UNCHANGED <<alignVars, assignVars, simplifyVars, loadVars>>

\* SIGALRM while the wrapped function runs: timeout_handler raises
\* TimeoutException there. It is an Exception, so in a try body the step's
\* (divpar3: the outer) except clause catches it, in a step's except clause
\* the outer one does, and in the outer except clause it leaves the function
\* and is caught by except TimeoutException of process_with_timeout
AlarmInFunc ==
    /\ dpc = "func" /\ alarm
    /\ alarm' = FALSE
    /\ alarm_fired' = "func"
    /\ IF handler_depth < 2
       THEN /\ handler_depth' = IF handler_depth = 0 THEN CatchingHandler(script) ELSE 2
            /\ UNCHANGED <<call_value, dpc>>
       ELSE /\ call_value' = FailureValue(script, "timeout")
            /\ dpc' = "finally"
            /\ UNCHANGED handler_depth
    /\ UNCHANGED <<workerFrame, loop_i, processed_results, func_stage>>
    /\ UNCHANGED <<alignVars, assignVars, simplifyVars, loadVars>>

\* SIGALRM after the wrapped function has returned, still inside the try:
\* except TimeoutException returns the failure value
AlarmInTry ==
    /\ dpc = "try" /\ alarm
    /\ alarm' = FALSE
    /\ alarm_fired' = "try"
    /\ call_value' = FailureValue(script, "timeout")
    /\ dpc' = "finally"
    /\ UNCHANGED <<workerFrame, loop_i, processed_results, func_stage, handler_depth>>
    /\ UNCHANGED <<alignVars, assignVars, simplifyVars, loadVars>>

\* the try is left with the value to return
LeaveTry ==
    /\ dpc = "try"
    /\ dpc' = "finally"
    /\ UNCHANGED <<workerFrame, loop_i, processed_results, workerVars>>
    /\ UNCHANGED <<alignVars, assignVars, simplifyVars, loadVars>>

\* SIGALRM in the finally clause before signal.alarm(0): no try encloses it,
\* the TimeoutException leaves the call
AlarmInFinally ==
    /\ dpc = "finally" /\ alarm
    /\ alarm' = FALSE
    /\ alarm_fired' = "finally"
    /\ processed_results' = Append(processed_results,
                                   [TaskResult(temp_files[loop_i + 1], NoValue, TRUE)
                                        EXCEPT !.fired = "finally"])
    /\ loop_i' = loop_i + 1
    /\ dpc' = "idle"
    /\ UNCHANGED <<workerFrame, func_stage, handler_depth, call_value>>
    /\ UNCHANGED <<alignVars, assignVars, simplifyVars, loadVars>>

\* finally: signal.alarm(0), then the call returns its value to the pool
FinallyReturns ==
    /\ dpc = "finally"
    /\ alarm' = AlarmCancelled(alarm)
    /\ processed_results' = Append(processed_results,
                                   TaskResult(temp_files[loop_i + 1], call_value, FALSE))
    /\ loop_i' = loop_i + 1
    /\ dpc' = "idle"
    /\ UNCHANGED <<workerFrame, func_stage, handler_depth, alarm_fired, call_value>>
    /\ UNCHANGED <<alignVars, assignVars, simplifyVars, loadVars>>

NextWorker ==
    \/ ProcessWithTimeoutEnter \/ FuncStageDone \/ FuncStageRaises \/ FuncHandlerReturns
    \/ AlarmInFunc \/ AlarmInTry \/ LeaveTry \/ AlarmInFinally \/ FinallyReturns

SpecWorker == InitWorker /\ [][NextWorker]_vars

====
